---- MODULE Spec2Model ----
(***************************************************************************)
(* A model of two subsystems of the node:                                  *)
(*   - EncodedChunksCache (chain/chunks/src/chunk_cache.rs), the cache of  *)
(*     partial encoded chunks with its height, incomplete and ready-header *)
(*     indexes;                                                            *)
(*   - PeerActor (chain/network/src/peer/peer_actor.rs), the               *)
(*     per-connection state machine.                                       *)
(* The cache is the state of specification Spec; MergeSpec runs the same   *)
(* operations on one chunk with a richer universe of parts and receipts.   *)
(* PeerSpec connects an outbound and an inbound PeerActor by a stream and  *)
(* runs their handshake; FairPeerSpec adds the scheduling of the handlers. *)
(***************************************************************************)
EXTENDS Integers, FiniteSets, Sequences, TLC

(***************************************************************************)
(* Program constants of chunk_cache.rs.                                    *)
(***************************************************************************)
HEIGHT_HORIZON == 1024
MAX_HEIGHTS_AHEAD == 5
CHUNK_HEADER_HEIGHT_HORIZON == 10

(***************************************************************************)
(* Bounds of the model.                                                    *)
(***************************************************************************)
\* part ords carried by messages are 0..MaxPartOrd
MaxPartOrd == 1
\* a message carries at most MaxParts parts
MaxParts == 2

VARIABLES
    largest_seen_height,          \* EncodedChunksCache::largest_seen_height
    encoded_chunks,               \* ChunkHash -> EncodedChunksCacheEntry
    height_map,                   \* BlockHeight -> set of ChunkHash
    incomplete_chunks,            \* CryptoHash -> set of ChunkHash
    block_hash_to_chunk_headers,  \* CryptoHash -> (ShardId -> ready header)
    presented_part_ords,          \* history: ords presented per chunk hash
    returned_part_ords,           \* history: ords returned per chunk hash
    presented_since_insert,       \* history: parts presented since the entry was created
    returned_since_insert         \* history: ords returned since the entry was created

VARIABLES
    actors,                       \* machine -> PeerActor (its fields and its actix context)
    stream,                       \* machine -> frames written by the remote, not yet handled
    peer_manager,                 \* machine -> messages it has sent to the peer manager
    network_state,                \* machine -> NetworkState of its node
    event_sink,                   \* machine -> events of its connection, in order
    hostile,                      \* what a hostile remote may still write to the stream
    dispatched,                   \* machine -> what it has sent to the client, the view
                                  \* client and the peers of its node, in order
    received_at,                  \* history: machine -> key of a routed message -> when
                                  \* the machine last received one
    inbound_handshake_permits,    \* NetworkState::inbound_handshake_permits of the inbound
                                  \* node: the permits the semaphore has left
    txns_since_last_block,        \* NetworkState::txns_since_last_block of a node whose
                                  \* connections handle frames concurrently (with one
                                  \* connection per node, its actor carries the counter)
    handshake_timed_out,          \* history: machines halted by their handshake timeout
    renegotiated                  \* history: machine -> handshakes re-sent on a version mismatch

cache_vars == <<largest_seen_height, encoded_chunks, height_map, incomplete_chunks,
                block_hash_to_chunk_headers,
                presented_part_ords, returned_part_ords,
                presented_since_insert, returned_since_insert>>

peer_vars == <<actors, stream, peer_manager, network_state, event_sink, hostile,
               dispatched, received_at, inbound_handshake_permits,
               txns_since_last_block, handshake_timed_out, renegotiated>>

vars == <<cache_vars, peer_vars>>

(***************************************************************************)
(* Maps (HashMap) are functions whose DOMAIN is the set of keys.           *)
(***************************************************************************)
EmptyMap == [k \in {} |-> 0]

MapPut(m, k, v) == [x \in DOMAIN m \cup {k} |-> IF x = k THEN v ELSE m[x]]

MapRemove(m, k) == [x \in DOMAIN m \ {k} |-> m[x]]

saturating_sub(a, b) == IF a >= b THEN a - b ELSE 0

(***************************************************************************)
(* Chunk headers.  A header carries its chunk hash, the height it was      *)
(* created at, the hash of the previous block and its shard.  The hash is  *)
(* collision free: it determines the header.  Headers 1 and 2 are the two  *)
(* headers of test_incomplete_chunks (height 1, shards 0 and 1, the same   *)
(* previous block); header 3 is created one height past the front horizon *)
(* of a new cache, after another block.                                    *)
(***************************************************************************)
ChunkHeader(hash, height, prev, shard) ==
    [chunk_hash |-> hash, height_created |-> height,
     prev_block_hash |-> prev, shard_id |-> shard]

create_chunk_header(height, shard) == ChunkHeader(1 + shard, height, 0, shard)

Headers == {create_chunk_header(1, 0), create_chunk_header(1, 1),
            ChunkHeader(3, MAX_HEIGHTS_AHEAD + 1, 1, 0)}

ChunkHashes == {h.chunk_hash : h \in Headers}

ShardIds == {h.shard_id : h \in Headers}

AccountIds == {"irrelevant"}

\* the heights update_largest_seen_height is called with: the height of a new
\* cache, a height whose rear horizon lies between the heights of the headers,
\* and the height of test_cache_removal, which leaves every header behind
NewHeights == {0, HEIGHT_HORIZON + 4, 2000}

(***************************************************************************)
(* Parts and receipts.  A part is keyed by its part_ord and a receipt      *)
(* proof by the to_shard_id of its shard proof; the payload stands for the *)
(* rest of the value, so that two parts with one ord can differ.           *)
(***************************************************************************)
\* the payloads of parts and receipts: two, so that a first and a later writer differ
Payloads == {"a", "b"}

Parts == [part_ord : 0..MaxPartOrd, part : Payloads]

Receipts == [to_shard_id : {0}, proof : Payloads]

SeqsUpTo(S, n) == UNION {[1..k -> S] : k \in 0..n}

\* PartialEncodedChunkV2 values over the headers hs
PartialEncodedChunks(hs, ps, rs) == [header : hs, parts : ps, receipts : rs]

(***************************************************************************)
(* The cache as one value, so that an operation that calls another is the  *)
(* composition of the two.                                                 *)
(***************************************************************************)
Cache ==
    [largest_seen_height |-> largest_seen_height,
     encoded_chunks |-> encoded_chunks,
     height_map |-> height_map,
     incomplete_chunks |-> incomplete_chunks,
     block_hash_to_chunk_headers |-> block_hash_to_chunk_headers]

new ==
    [largest_seen_height |-> 0,
     encoded_chunks |-> EmptyMap,
     height_map |-> EmptyMap,
     incomplete_chunks |-> EmptyMap,
     block_hash_to_chunk_headers |-> EmptyMap]

from_chunk_header(header) ==
    [header |-> header, parts |-> EmptyMap, receipts |-> EmptyMap,
     complete |-> FALSE, header_fully_validated |-> FALSE]

(***************************************************************************)
(* EncodedChunksCacheEntry::merge_in_partial_encoded_chunk: the parts and  *)
(* the receipts of the message are visited in order, and each is stored    *)
(* only under a key that holds nothing yet.                                *)
(***************************************************************************)
\* mutant: the set returned is assigned, not extended
RECURSIVE merge_parts_returns_last(_, _, _)
merge_parts_returns_last(acc, part_infos, i) ==
    IF i > Len(part_infos) THEN acc
    ELSE LET part_info == part_infos[i]
             part_ord == part_info.part_ord
         IN  merge_parts_returns_last(
                 IF part_ord \in DOMAIN acc.parts THEN acc
                 ELSE [parts |-> MapPut(acc.parts, part_ord, part_info),
                       previously_missing_part_ords |-> {part_ord}],
                 part_infos, i + 1)

\* mutant: the last writer wins
RECURSIVE merge_receipts_overwrites(_, _, _)
merge_receipts_overwrites(receipts, receipt_proofs, i) ==
    IF i > Len(receipt_proofs) THEN receipts
    ELSE merge_receipts_overwrites(
             MapPut(receipts, receipt_proofs[i].to_shard_id, receipt_proofs[i]),
             receipt_proofs, i + 1)

\* the loop over the parts: acc holds the parts of the entry and the ords
\* inserted so far
RECURSIVE merge_parts(_, _, _)
merge_parts(acc, part_infos, i) ==
    IF i > Len(part_infos) THEN acc
    ELSE LET part_info == part_infos[i]
             part_ord == part_info.part_ord
         IN  merge_parts(
                 IF part_ord \in DOMAIN acc.parts THEN acc
                 ELSE [parts |-> MapPut(acc.parts, part_ord, part_info),
                       previously_missing_part_ords |->
                           acc.previously_missing_part_ords \cup {part_ord}],
                 part_infos, i + 1)

\* the loop over the receipts
RECURSIVE merge_receipts(_, _, _)
merge_receipts(receipts, receipt_proofs, i) ==
    IF i > Len(receipt_proofs) THEN receipts
    ELSE LET receipt == receipt_proofs[i]
             shard_id == receipt.to_shard_id
         IN  merge_receipts(IF shard_id \in DOMAIN receipts THEN receipts
                            ELSE MapPut(receipts, shard_id, receipt),
                            receipt_proofs, i + 1)

\* the entry after the merge, and the set of ords the merge returns
entry_merge_in_partial_encoded_chunk(entry, partial_encoded_chunk) ==
    LET merged == merge_parts([parts |-> entry.parts,
                               previously_missing_part_ords |-> {}],
                              partial_encoded_chunk.parts, 1)
    IN  [entry |-> [entry EXCEPT
                       !.parts = merged.parts,
                       !.receipts = merge_receipts(@, partial_encoded_chunk.receipts, 1)],
         previously_missing_part_ords |-> merged.previously_missing_part_ords]

(***************************************************************************)
(* EncodedChunksCache: the operations, as functions from the cache before  *)
(* to the cache after.                                                     *)
(***************************************************************************)
\* mutant: the key stays when its set becomes empty
remove_chunk_from_incomplete_chunks_keeps_key(c, prev_block_hash, chunk_hash) ==
    IF prev_block_hash \in DOMAIN c.incomplete_chunks
    THEN [c EXCEPT !.incomplete_chunks[prev_block_hash] = @ \ {chunk_hash}]
    ELSE c

remove_chunk_from_incomplete_chunks(c, prev_block_hash, chunk_hash) ==
    IF prev_block_hash \in DOMAIN c.incomplete_chunks
    THEN LET left == c.incomplete_chunks[prev_block_hash] \ {chunk_hash}
         IN  [c EXCEPT !.incomplete_chunks =
                          IF left = {} THEN MapRemove(@, prev_block_hash)
                          ELSE MapPut(@, prev_block_hash, left)]
    ELSE c

\* mutant: the entry is marked and stays listed
mark_entry_complete_keeps_listed(c, chunk_hash) ==
    IF chunk_hash \in DOMAIN c.encoded_chunks
    THEN [c EXCEPT !.encoded_chunks[chunk_hash].complete = TRUE]
    ELSE c

mark_entry_complete(c, chunk_hash) ==
    IF chunk_hash \in DOMAIN c.encoded_chunks
    THEN remove_chunk_from_incomplete_chunks(
             [c EXCEPT !.encoded_chunks[chunk_hash].complete = TRUE],
             c.encoded_chunks[chunk_hash].header.prev_block_hash, chunk_hash)
    ELSE c

mark_entry_validated(c, chunk_hash) ==
    IF chunk_hash \in DOMAIN c.encoded_chunks
    THEN [c EXCEPT !.encoded_chunks[chunk_hash].header_fully_validated = TRUE]
    ELSE c

get_incomplete_chunks(c, prev_block_hash) ==
    IF prev_block_hash \in DOMAIN c.incomplete_chunks
    THEN <<"Some", c.incomplete_chunks[prev_block_hash]>>
    ELSE <<"None">>

remove(c, chunk_hash) ==
    IF chunk_hash \in DOMAIN c.encoded_chunks
    THEN remove_chunk_from_incomplete_chunks(
             [c EXCEPT !.encoded_chunks = MapRemove(@, chunk_hash)],
             c.encoded_chunks[chunk_hash].header.prev_block_hash, chunk_hash)
    ELSE c

get_or_insert_from_header(c, chunk_header) ==
    LET chunk_hash == chunk_header.chunk_hash
        height == chunk_header.height_created
        prev == chunk_header.prev_block_hash
    IN  IF chunk_hash \in DOMAIN c.encoded_chunks THEN c
        ELSE [c EXCEPT
                !.height_map =
                    MapPut(@, height,
                           (IF height \in DOMAIN @ THEN @[height] ELSE {})
                               \cup {chunk_hash}),
                !.incomplete_chunks =
                    MapPut(@, prev,
                           (IF prev \in DOMAIN @ THEN @[prev] ELSE {})
                               \cup {chunk_hash}),
                !.encoded_chunks =
                    MapPut(@, chunk_hash, from_chunk_header(chunk_header))]

height_within_front_horizon(c, height) ==
    /\ height >= c.largest_seen_height
    /\ height <= c.largest_seen_height + MAX_HEIGHTS_AHEAD

height_within_rear_horizon(c, height) ==
    /\ height + HEIGHT_HORIZON >= c.largest_seen_height
    /\ height <= c.largest_seen_height

height_within_horizon(c, height) ==
    height_within_front_horizon(c, height) \/ height_within_rear_horizon(c, height)

\* the cache after the merge, and the set of ords the merge returns
merge_in_partial_encoded_chunk(c, partial_encoded_chunk) ==
    LET c1 == get_or_insert_from_header(c, partial_encoded_chunk.header)
        chunk_hash == partial_encoded_chunk.header.chunk_hash
        merged == entry_merge_in_partial_encoded_chunk(c1.encoded_chunks[chunk_hash],
                                                       partial_encoded_chunk)
    IN  [cache |-> [c1 EXCEPT !.encoded_chunks[chunk_hash] = merged.entry],
         previously_missing_part_ords |-> merged.previously_missing_part_ords]

\* a removal that looks at the front horizon alone
remove_from_cache_if_outside_front_horizon(c, chunk_hash) ==
    IF chunk_hash \in DOMAIN c.encoded_chunks
    THEN LET height == c.encoded_chunks[chunk_hash].header.height_created
         IN  IF ~height_within_front_horizon(c, height) THEN remove(c, chunk_hash) ELSE c
    ELSE c

remove_from_cache_if_outside_horizon(c, chunk_hash) ==
    IF chunk_hash \in DOMAIN c.encoded_chunks
    THEN LET height == c.encoded_chunks[chunk_hash].header.height_created
         IN  IF ~height_within_horizon(c, height) THEN remove(c, chunk_hash) ELSE c
    ELSE c

remove_chunk_header(c, header) ==
    LET prev_block_hash == header.prev_block_hash
        shard_id == header.shard_id
        chunk_hash == header.chunk_hash
    IN  IF /\ prev_block_hash \in DOMAIN c.block_hash_to_chunk_headers
           /\ shard_id \in DOMAIN c.block_hash_to_chunk_headers[prev_block_hash]
           /\ c.block_hash_to_chunk_headers[prev_block_hash][shard_id].header.chunk_hash
                  = chunk_hash
        THEN LET chunk_headers ==
                     MapRemove(c.block_hash_to_chunk_headers[prev_block_hash], shard_id)
             IN  [c EXCEPT !.block_hash_to_chunk_headers =
                              IF DOMAIN chunk_headers = {}
                              THEN MapRemove(@, prev_block_hash)
                              ELSE MapPut(@, prev_block_hash, chunk_headers)]
        ELSE c

\* the body of the inner loop of update_largest_seen_height, for one chunk hash
evict_unless_requested(c, chunk_hash, requested_chunks) ==
    IF chunk_hash \notin requested_chunks
    THEN IF chunk_hash \in DOMAIN c.encoded_chunks
         THEN remove_chunk_header(remove(c, chunk_hash),
                                  c.encoded_chunks[chunk_hash].header)
         ELSE c
    ELSE c

\* the inner loop: the chunks of one height, one after the other
RECURSIVE evict_chunks(_, _, _)
evict_chunks(c, chunks_to_remove, requested_chunks) ==
    IF chunks_to_remove = {} THEN c
    ELSE LET chunk_hash == CHOOSE x \in chunks_to_remove : TRUE
         IN  evict_chunks(evict_unless_requested(c, chunk_hash, requested_chunks),
                          chunks_to_remove \ {chunk_hash}, requested_chunks)

\* the outer loop: the heights of heights that height_map holds, in
\* increasing order (the loop skips a height that height_map does not hold)
RECURSIVE evict_heights(_, _, _)
evict_heights(c, heights, requested_chunks) ==
    IF heights = {} THEN c
    ELSE LET height == CHOOSE x \in heights : \A y \in heights : x <= y
         IN  evict_heights(
                 evict_chunks([c EXCEPT !.height_map = MapRemove(@, height)],
                              c.height_map[height], requested_chunks),
                 heights \ {height}, requested_chunks)

update_largest_seen_height(c, new_height, requested_chunks) ==
    LET old_largest_seen_height == c.largest_seen_height
        c1 == [c EXCEPT !.largest_seen_height = new_height]
        from == saturating_sub(old_largest_seen_height, HEIGHT_HORIZON)
        to == saturating_sub(c1.largest_seen_height, HEIGHT_HORIZON)
    IN  evict_heights(c1,
                      {height \in DOMAIN c1.height_map : from <= height /\ height < to},
                      requested_chunks)

\* mutant: the header is recorded whatever its height
insert_chunk_header_ungated(c, shard_id, header, chunk_producer) ==
    LET prev_block_hash == header.prev_block_hash
        chunk_headers ==
            IF prev_block_hash \in DOMAIN c.block_hash_to_chunk_headers
            THEN c.block_hash_to_chunk_headers[prev_block_hash]
            ELSE EmptyMap
    IN  [c EXCEPT !.block_hash_to_chunk_headers =
             MapPut(@, prev_block_hash,
                    MapPut(chunk_headers, shard_id,
                           [header |-> header, chunk_producer |-> chunk_producer]))]

insert_chunk_header(c, shard_id, header, chunk_producer) ==
    LET height == header.height_created
    IN  IF /\ height >= saturating_sub(c.largest_seen_height, CHUNK_HEADER_HEIGHT_HORIZON)
           /\ height <= c.largest_seen_height + MAX_HEIGHTS_AHEAD
        THEN LET prev_block_hash == header.prev_block_hash
                 chunk_headers ==
                     IF prev_block_hash \in DOMAIN c.block_hash_to_chunk_headers
                     THEN c.block_hash_to_chunk_headers[prev_block_hash]
                     ELSE EmptyMap
             IN  [c EXCEPT !.block_hash_to_chunk_headers =
                      MapPut(@, prev_block_hash,
                             MapPut(chunk_headers, shard_id,
                                    [header |-> header,
                                     chunk_producer |-> chunk_producer]))]
        ELSE c

get_chunk_headers_for_block(c, prev_block_hash) ==
    IF prev_block_hash \in DOMAIN c.block_hash_to_chunk_headers
    THEN c.block_hash_to_chunk_headers[prev_block_hash]
    ELSE EmptyMap

(***************************************************************************)
(* The state machine.  Every action is one call of a public operation of   *)
(* the cache, with its arguments drawn from the sets given to it.  The     *)
(* history variables record, per chunk hash, what the merges were given    *)
(* and the part ords they returned, over the whole run and since the entry *)
(* of the chunk was last created.                                          *)
(***************************************************************************)
NoOrds == [h \in ChunkHashes |-> {}]

CacheInit ==
    /\ largest_seen_height = new.largest_seen_height
    /\ encoded_chunks = new.encoded_chunks
    /\ height_map = new.height_map
    /\ incomplete_chunks = new.incomplete_chunks
    /\ block_hash_to_chunk_headers = new.block_hash_to_chunk_headers
    /\ presented_part_ords = NoOrds
    /\ returned_part_ords = NoOrds
    /\ presented_since_insert = NoOrds
    /\ returned_since_insert = NoOrds

\* the permits inbound_handshake_permits is created with
MaxInboundHandshakePermits == 1

\* no connection has been spawned
NoPeers ==
    /\ inbound_handshake_permits = MaxInboundHandshakePermits
    /\ actors = EmptyMap
    /\ stream = EmptyMap
    /\ peer_manager = EmptyMap
    /\ network_state = EmptyMap
    /\ event_sink = EmptyMap
    /\ dispatched = EmptyMap
    /\ received_at = EmptyMap
    /\ hostile = 0
    /\ handshake_timed_out = {}
    /\ renegotiated = EmptyMap
    /\ txns_since_last_block = 0

Init == CacheInit /\ NoPeers

SetCache(c) ==
    /\ largest_seen_height' = c.largest_seen_height
    /\ encoded_chunks' = c.encoded_chunks
    /\ height_map' = c.height_map
    /\ incomplete_chunks' = c.incomplete_chunks
    /\ block_hash_to_chunk_headers' = c.block_hash_to_chunk_headers
    /\ UNCHANGED peer_vars

\* a call that is no merge: the history of an entry ends when the entry goes
NoMerge(c) ==
    /\ UNCHANGED <<presented_part_ords, returned_part_ords>>
    /\ presented_since_insert' =
           [h \in ChunkHashes |-> IF h \in DOMAIN c.encoded_chunks
                                  THEN presented_since_insert[h] ELSE {}]
    /\ returned_since_insert' =
           [h \in ChunkHashes |-> IF h \in DOMAIN c.encoded_chunks
                                  THEN returned_since_insert[h] ELSE {}]

PartsOf(partial_encoded_chunk) ==
    {partial_encoded_chunk.parts[i] : i \in DOMAIN partial_encoded_chunk.parts}

PartOrdsOf(partial_encoded_chunk) == {p.part_ord : p \in PartsOf(partial_encoded_chunk)}

GetOrInsertFromHeader(chunk_header) ==
    LET c == get_or_insert_from_header(Cache, chunk_header)
    IN  SetCache(c) /\ NoMerge(c)

MergeInPartialEncodedChunk(partial_encoded_chunk) ==
    LET r == merge_in_partial_encoded_chunk(Cache, partial_encoded_chunk)
        chunk_hash == partial_encoded_chunk.header.chunk_hash
        presented == PartOrdsOf(partial_encoded_chunk)
    IN  /\ SetCache(r.cache)
        /\ presented_part_ords' = [presented_part_ords EXCEPT ![chunk_hash] = @ \cup presented]
        /\ returned_part_ords' =
               [returned_part_ords EXCEPT ![chunk_hash] = @ \cup r.previously_missing_part_ords]
        /\ presented_since_insert' =
               [presented_since_insert EXCEPT
                   ![chunk_hash] = (IF chunk_hash \in DOMAIN encoded_chunks THEN @ ELSE {})
                                       \cup PartsOf(partial_encoded_chunk)]
        /\ returned_since_insert' =
               [returned_since_insert EXCEPT
                   ![chunk_hash] = (IF chunk_hash \in DOMAIN encoded_chunks THEN @ ELSE {})
                                       \cup r.previously_missing_part_ords]

MarkEntryComplete(chunk_hash) ==
    LET c == mark_entry_complete(Cache, chunk_hash)
    IN  SetCache(c) /\ NoMerge(c)

MarkEntryValidated(chunk_hash) ==
    LET c == mark_entry_validated(Cache, chunk_hash)
    IN  SetCache(c) /\ NoMerge(c)

Remove(chunk_hash) ==
    LET c == remove(Cache, chunk_hash)
    IN  SetCache(c) /\ NoMerge(c)

RemoveFromCacheIfOutsideHorizon(chunk_hash) ==
    LET c == remove_from_cache_if_outside_horizon(Cache, chunk_hash)
    IN  SetCache(c) /\ NoMerge(c)

UpdateLargestSeenHeight(new_height, requested_chunks) ==
    LET c == update_largest_seen_height(Cache, new_height, requested_chunks)
    IN  SetCache(c) /\ NoMerge(c)

InsertChunkHeader(shard_id, header, chunk_producer) ==
    LET c == insert_chunk_header(Cache, shard_id, header, chunk_producer)
    IN  SetCache(c) /\ NoMerge(c)

(***************************************************************************)
(* Spec: every operation on the three headers; the messages merged are     *)
(* those of the unit tests, which carry no parts and no receipts.          *)
(***************************************************************************)
SpecMessages == PartialEncodedChunks(Headers, {<<>>}, {<<>>})

Next ==
    \/ \E h \in Headers : GetOrInsertFromHeader(h)
    \/ \E m \in SpecMessages : MergeInPartialEncodedChunk(m)
    \/ \E x \in ChunkHashes : MarkEntryComplete(x)
    \/ \E x \in ChunkHashes : MarkEntryValidated(x)
    \/ \E x \in ChunkHashes : Remove(x)
    \/ \E x \in ChunkHashes : RemoveFromCacheIfOutsideHorizon(x)
    \/ \E n \in NewHeights, r \in SUBSET ChunkHashes : UpdateLargestSeenHeight(n, r)
    \/ \E s \in ShardIds, h \in Headers, a \in AccountIds : InsertChunkHeader(s, h, a)

Spec == Init /\ [][Next]_vars

(***************************************************************************)
(* MergeSpec: the operations on one header, with messages that carry parts *)
(* and receipts: several ords, the same ord twice in one message, and two  *)
(* payloads for one key.                                                   *)
(***************************************************************************)
MergeHeaders == {create_chunk_header(1, 0)}

MergeHashes == {h.chunk_hash : h \in MergeHeaders}

MergeMessages ==
    PartialEncodedChunks(MergeHeaders, SeqsUpTo(Parts, MaxParts), SeqsUpTo(Receipts, 1))

MergeNext ==
    \/ \E h \in MergeHeaders : GetOrInsertFromHeader(h)
    \/ \E m \in MergeMessages : MergeInPartialEncodedChunk(m)
    \/ \E x \in MergeHashes : MarkEntryComplete(x)
    \/ \E x \in MergeHashes : MarkEntryValidated(x)
    \/ \E x \in MergeHashes : Remove(x)

MergeSpec == Init /\ [][MergeNext]_vars

(***************************************************************************)
(* Properties of the cache.                                                *)
(***************************************************************************)
Listed == UNION {incomplete_chunks[p] : p \in DOMAIN incomplete_chunks}

PrevBlockHashes == {h.prev_block_hash : h \in Headers}

\* the horizon of the entries around a largest seen height H
InEntryHorizon(height, H) ==
    height >= H - HEIGHT_HORIZON /\ height <= H + MAX_HEIGHTS_AHEAD

\* the horizon of the ready headers around a largest seen height H
InHeaderHorizon(height, H) ==
    height >= H - CHUNK_HEADER_HEIGHT_HORIZON /\ height <= H + MAX_HEIGHTS_AHEAD

\* the ready headers the map stores
ReadyHeaders(m) == UNION {{m[p][s].header : s \in DOMAIN m[p]} : p \in DOMAIN m}

\* C1: every chunk hash listed in incomplete_chunks has an entry in
\* encoded_chunks that is not complete and whose prev_block_hash is the key it
\* is listed under; no complete entry is listed.
C1_ListedChunksAreIncomplete ==
    /\ \A p \in DOMAIN incomplete_chunks : \A x \in incomplete_chunks[p] :
           /\ x \in DOMAIN encoded_chunks
           /\ ~encoded_chunks[x].complete
           /\ encoded_chunks[x].header.prev_block_hash = p
    /\ \A x \in DOMAIN encoded_chunks : encoded_chunks[x].complete => x \notin Listed

\* a complete entry beside an incomplete one of the same previous block, which is listed
C1_Witness ==
    \E x \in DOMAIN encoded_chunks, y \in Listed :
        /\ encoded_chunks[x].complete
        /\ y \in DOMAIN encoded_chunks
        /\ encoded_chunks[y].header.prev_block_hash = encoded_chunks[x].header.prev_block_hash

\* C2: immediately after update_largest_seen_height(H', requested) returns,
\* every entry that remains in encoded_chunks has height_created in
\* [H' - 1024, H' + 5] or its chunk hash is a key of requested.
C2_RemainingAreInHorizonOrRequested ==
    [][\A n \in NewHeights, r \in SUBSET ChunkHashes :
           UpdateLargestSeenHeight(n, r) =>
               \A x \in DOMAIN encoded_chunks' :
                   \/ InEntryHorizon(encoded_chunks'[x].header.height_created, n)
                   \/ x \in r]_vars

\* C3: in every reachable state every entry of encoded_chunks has
\* height_created within [largest_seen_height - 1024, largest_seen_height + 5].
C3_EntriesAreInHorizon ==
    \A x \in DOMAIN encoded_chunks :
        InEntryHorizon(encoded_chunks[x].header.height_created, largest_seen_height)

\* C6: mark_entry_complete(h) on an existing entry sets complete, removes h
\* from incomplete_chunks[prev_block_hash] and removes that key when its set
\* becomes empty; hence no key of incomplete_chunks maps to the empty set, and
\* get_incomplete_chunks(prev) returns None exactly when the cache holds no
\* incomplete entry with that prev_block_hash.
C6_MarkEntryCompleteStep ==
    \A x \in DOMAIN encoded_chunks :
        MarkEntryComplete(x) =>
            LET p == encoded_chunks[x].header.prev_block_hash
                before == IF p \in DOMAIN incomplete_chunks THEN incomplete_chunks[p] ELSE {}
            IN  /\ encoded_chunks'[x].complete
                /\ IF before \ {x} = {}
                   THEN p \notin DOMAIN incomplete_chunks'
                   ELSE p \in DOMAIN incomplete_chunks' /\ incomplete_chunks'[p] = before \ {x}

C6_NoEmptyIncompleteSet ==
    /\ \A p \in DOMAIN incomplete_chunks : incomplete_chunks[p] # {}
    /\ \A p \in PrevBlockHashes :
           get_incomplete_chunks(Cache, p) = <<"None">>
               <=> ~\E x \in DOMAIN encoded_chunks :
                       /\ ~encoded_chunks[x].complete
                       /\ encoded_chunks[x].header.prev_block_hash = p

C6_MarkEntryComplete ==
    C6_NoEmptyIncompleteSet /\ [][C6_MarkEntryCompleteStep /\ C6_NoEmptyIncompleteSet']_vars

\* the end of test_incomplete_chunks: two complete entries of one previous
\* block, whose key is gone
C6_Witness ==
    \E x, y \in DOMAIN encoded_chunks :
        /\ x # y
        /\ encoded_chunks[x].complete /\ encoded_chunks[y].complete
        /\ encoded_chunks[x].header.prev_block_hash = encoded_chunks[y].header.prev_block_hash
        /\ get_incomplete_chunks(Cache, encoded_chunks[x].header.prev_block_hash) = <<"None">>

\* every ready header is stored under its own previous block and shard
ReadyHeadersUnderOwnKeys ==
    \A p \in DOMAIN block_hash_to_chunk_headers :
        \A s \in DOMAIN block_hash_to_chunk_headers[p] :
            /\ block_hash_to_chunk_headers[p][s].header.prev_block_hash = p
            /\ block_hash_to_chunk_headers[p][s].header.shard_id = s

\* C7: update_largest_seen_height(new_height, requested) evicts, for every
\* height in [old_H - 1024, new_height - 1024) (saturating at 0), every cached
\* chunk of that height whose hash is not in requested: afterwards it has no
\* entry, is not listed as incomplete and has no ready header; when all cached
\* chunks are in that range and requested is empty, encoded_chunks, height_map
\* and the ready-header map are empty afterwards.  The claim is stated for the
\* calls made while every ready header is stored under its own shard, and its
\* second half for a cache that holds a chunk and ready headers of cached
\* chunks only, as in test_cache_removal.
C7_UpdateEvictsTheRange ==
    [][\A n \in NewHeights, r \in SUBSET ChunkHashes :
           (ReadyHeadersUnderOwnKeys /\ UpdateLargestSeenHeight(n, r)) =>
               LET InRange(x) ==
                       LET height == encoded_chunks[x].header.height_created
                       IN  /\ saturating_sub(largest_seen_height, HEIGHT_HORIZON) <= height
                           /\ height < saturating_sub(n, HEIGHT_HORIZON)
               IN  /\ \A x \in DOMAIN encoded_chunks :
                          InRange(x) /\ x \notin r =>
                              /\ x \notin DOMAIN encoded_chunks'
                              /\ \A p \in DOMAIN incomplete_chunks' : x \notin incomplete_chunks'[p]
                              /\ \A h \in ReadyHeaders(block_hash_to_chunk_headers') :
                                     h.chunk_hash # x
                   /\ ( /\ r = {}
                        /\ DOMAIN encoded_chunks # {}
                        /\ \A x \in DOMAIN encoded_chunks : InRange(x)
                        /\ \A h \in ReadyHeaders(block_hash_to_chunk_headers) :
                               h.chunk_hash \in DOMAIN encoded_chunks ) =>
                          /\ DOMAIN encoded_chunks' = {}
                          /\ DOMAIN height_map' = {}
                          /\ DOMAIN block_hash_to_chunk_headers' = {}]_vars

\* C9: largest_seen_height is the largest height ever seen: each call of
\* update_largest_seen_height leaves it at the maximum of its value before and
\* new_height, and it never decreases.
C9_LargestSeenHeightIsTheMaximum ==
    [][/\ largest_seen_height' >= largest_seen_height
       /\ \A n \in NewHeights, r \in SUBSET ChunkHashes :
              UpdateLargestSeenHeight(n, r) =>
                  largest_seen_height' = IF n > largest_seen_height THEN n
                                         ELSE largest_seen_height]_vars

\* C8 as claimed: insert_chunk_header records a header only if its
\* height_created is in [largest_seen_height - 10, largest_seen_height + 5]
\* and leaves the map unchanged otherwise, and in every reachable state every
\* header stored in block_hash_to_chunk_headers has height_created in
\* [largest_seen_height - 10, largest_seen_height + 5].
C8_InsertChunkHeaderStep ==
    \A s \in ShardIds, h \in Headers, a \in AccountIds :
        InsertChunkHeader(s, h, a) =>
            IF InHeaderHorizon(h.height_created, largest_seen_height)
            THEN /\ h.prev_block_hash \in DOMAIN block_hash_to_chunk_headers'
                 /\ s \in DOMAIN block_hash_to_chunk_headers'[h.prev_block_hash]
                 /\ block_hash_to_chunk_headers'[h.prev_block_hash][s].header = h
            ELSE block_hash_to_chunk_headers' = block_hash_to_chunk_headers

C8_StoredHeadersAreInHorizon ==
    \A h \in ReadyHeaders(block_hash_to_chunk_headers) :
        InHeaderHorizon(h.height_created, largest_seen_height)

C4_MergeReturnsTheNewOrds ==
    /\ \A x \in ChunkHashes : returned_part_ords[x] = presented_part_ords[x]
    /\ \A m \in MergeMessages :
           LET x == m.header.chunk_hash
               returned == merge_in_partial_encoded_chunk(Cache, m).previously_missing_part_ords
           IN  x \in DOMAIN encoded_chunks =>
                   /\ returned \cap returned_since_insert[x] = {}
                   /\ PartsOf(m) \subseteq presented_since_insert[x] => returned = {}

\* an entry that was removed and created again: it was given an ord before
\* the removal that it has not been given since, and since then it has been
\* given two parts of one ord
C4_Witness ==
    \E x \in DOMAIN encoded_chunks :
        /\ returned_since_insert[x] # {}
        /\ returned_since_insert[x] # returned_part_ords[x]
        /\ Cardinality(presented_since_insert[x]) > Cardinality(returned_since_insert[x])

\* C5: once an entry stores a part for a part ord or a receipt for a
\* to_shard_id, no merge changes what is stored under that key, and a merge
\* into an existing entry changes neither its header nor its complete flag nor
\* its header_fully_validated flag.
C5_FirstWriterWins ==
    \A m \in MergeMessages :
        LET x == m.header.chunk_hash
        IN  x \in DOMAIN encoded_chunks =>
                LET before == encoded_chunks[x]
                    after == merge_in_partial_encoded_chunk(Cache, m).cache.encoded_chunks[x]
                IN  /\ \A o \in DOMAIN before.parts :
                           o \in DOMAIN after.parts /\ after.parts[o] = before.parts[o]
                    /\ \A t \in DOMAIN before.receipts :
                           t \in DOMAIN after.receipts /\ after.receipts[t] = before.receipts[t]
                    /\ after.header = before.header
                    /\ after.complete = before.complete
                    /\ after.header_fully_validated = before.header_fully_validated

\* a complete, validated entry that stores the first of two payloads it was
\* given for one ord
C5_Witness ==
    \E x \in DOMAIN encoded_chunks :
        /\ encoded_chunks[x].complete
        /\ encoded_chunks[x].header_fully_validated
        /\ \E o \in DOMAIN encoded_chunks[x].parts :
               \E q \in presented_since_insert[x] :
                   q.part_ord = o /\ q # encoded_chunks[x].parts[o]
        /\ DOMAIN encoded_chunks[x].receipts # {}

(***************************************************************************)
(* PeerActor (chain/network/src/peer/peer_actor.rs).                       *)
(*                                                                         *)
(* Two machines share one TCP stream: "outbound", spawned with             *)
(* StreamConfig::Outbound, and "inbound", spawned with                     *)
(* StreamConfig::Inbound.  A handler is an operator from the actor (and    *)
(* the NetworkState of its node) to the actor it leaves behind; the frames *)
(* it writes and the messages it sends to the peer manager are collected   *)
(* in the fields framed and to_peer_manager, which the actions move to the *)
(* stream and to the peer manager.                                         *)
(***************************************************************************)
Machines == {"outbound", "inbound"}

remote(m) == IF m = "outbound" THEN "inbound" ELSE "outbound"

\* Option<T>
None == <<>>

Some(x) == <<x>>

is_some(o) == o # None

unwrap(o) == o[1]

Tiers == {"T1", "T2"}

Encodings == {"Proto", "Borsh"}

(***************************************************************************)
(* Edges and their signatures (network_protocol::Edge, PartialEdgeInfo),   *)
(* the nonce check (routing::edge::verify_nonce) and the routing table of  *)
(* a node, after sections 3 and 4.5 of the specification.  A signature is  *)
(* the record of what was signed and by whom: it verifies against a peer   *)
(* and an edge exactly when that peer signed that pair and nonce.  An edge *)
(* stores its two peers in increasing order, each with its signature.      *)
(***************************************************************************)
Signature(signer, peer0, peer1, nonce) ==
    [signer |-> signer, peers |-> {peer0, peer1}, nonce |-> nonce]

\* PartialEdgeInfo::new(peer0, peer1, nonce, secret key of signer)
PartialEdgeInfo_new(peer0, peer1, nonce, signer) ==
    [nonce |-> nonce, signature |-> Signature(signer, peer0, peer1, nonce)]

\* Edge::partial_verify: the signature is verified against the 2nd argument
Edge_partial_verify(peer0, peer1, edge_info) ==
    edge_info.signature = Signature(peer1, peer0, peer1, edge_info.nonce)

\* Edge::new
Edge_new(peer0, peer1, nonce, signature0, signature1) ==
    IF peer0 < peer1
    THEN [key |-> <<peer0, peer1>>, nonce |-> nonce,
          signature0 |-> signature0, signature1 |-> signature1]
    ELSE [key |-> <<peer1, peer0>>, nonce |-> nonce,
          signature0 |-> signature1, signature1 |-> signature0]

\* Edge::verify
Edge_verify(edge) ==
    /\ edge.signature0 = Signature(edge.key[1], edge.key[1], edge.key[2], edge.nonce)
    /\ edge.signature1 = Signature(edge.key[2], edge.key[1], edge.key[2], edge.nonce)

\* Edge::next: the next nonce of an active edge, strictly greater and odd
Edge_next(edge) == IF edge.nonce % 2 = 1 THEN edge.nonce + 2 ELSE edge.nonce + 1

\* an edge both peers have signed
SignedEdge(peer0, peer1, nonce) ==
    Edge_new(peer0, peer1, nonce,
             Signature(peer0, peer0, peer1, nonce), Signature(peer1, peer0, peer1, nonce))

\* verify_nonce(clock, nonce): the clock bounds the nonces a node accepts; the
\* clock is the largest nonce that is sane now
verify_nonce(clock, nonce) == nonce <= clock

\* routing_table_view.get_local_edge(peer_id)
get_local_edge(ns, peer_id) ==
    IF peer_id \in DOMAIN ns.routing_table_view
    THEN Some(ns.routing_table_view[peer_id]) ELSE None

\* NetworkState::propose_edge(peer1, with_nonce): a partial edge signed by this
\* node, with the given nonce or else the nonce after the last known edge
propose_edge(ns, peer1, with_nonce) ==
    LET last_edge == get_local_edge(ns, peer1)
        nonce == IF is_some(with_nonce) THEN unwrap(with_nonce)
                 ELSE IF is_some(last_edge) THEN Edge_next(unwrap(last_edge))
                 ELSE 1
    IN  PartialEdgeInfo_new(ns.node_id, peer1, nonce, ns.node_id)

(***************************************************************************)
(* Messages and frames.  A frame is a message serialized under one         *)
(* encoding; it deserializes under that encoding only.                     *)
(***************************************************************************)
HandshakeMessage(tier, handshake) ==
    [variant |-> IF tier = "T1" THEN "Tier1Handshake" ELSE "Tier2Handshake",
     handshake |-> handshake]

HandshakeFailure(peer_info, reason) ==
    [variant |-> "HandshakeFailure", peer_info |-> peer_info, reason |-> reason]

LastEdge(edge) == [variant |-> "LastEdge", edge |-> edge]

\* the nodes hold no accounts data: the message carries its flag only
SyncAccountsData(requesting_full_sync) ==
    [variant |-> "SyncAccountsData", requesting_full_sync |-> requesting_full_sync]

\* a block: its hash, and the number of bytes a message that carries it
\* serializes to
Block_new(hash, len) == [hash |-> hash, len |-> len]

\* PeerMessage::serialize(enc)
serialize(msg, enc) == [encoding |-> enc, msg |-> msg]

\* the length of msg.serialize(enc): the messages without a block are short
serialized_len(msg) == IF msg.variant = "Block" THEN msg.block.len ELSE 1

\* PeerMessage::deserialize(enc, frame): Ok(msg) or Err
deserialize(enc, frame) == IF frame.encoding = enc THEN Some(frame.msg) ELSE None

\* connection::Tier::is_allowed: T1 carries its own handshake, the handshake
\* failures, Disconnect and the routed messages of the validators; T2
\* everything but the T1 handshake
is_allowed(tier, msg) ==
    IF tier = "T1"
    THEN \/ msg.variant \in {"Tier1Handshake", "HandshakeFailure", "Disconnect"}
         \/ msg.variant = "Routed" /\ msg.body.kind = "BlockApproval"
    ELSE msg.variant # "Tier1Handshake"

(***************************************************************************)
(* What a ready connection carries.  A routed message is signed by its     *)
(* author over its target and body; the signature is the record of what    *)
(* was signed and by whom.  Times are in milliseconds.                     *)
(***************************************************************************)
MAX_TRANSACTIONS_PER_BLOCK_MESSAGE == 1000

ROUTED_MESSAGE_CACHE_SIZE == 1000

DROP_DUPLICATED_MESSAGES_PERIOD == 50

NETWORK_MESSAGE_MAX_SIZE_BYTES == 512 * 1024 * 1024

RoutedSignature(signer, target, body) ==
    [signer |-> signer, target |-> target, body |-> body]

Routed(author, target, signature, body, ttl) ==
    [variant |-> "Routed", author |-> author, target |-> target,
     signature |-> signature, body |-> body, ttl |-> ttl]

\* RoutedMessage::hash
RoutedMessage_hash(msg) == <<msg.target, msg.author, msg.body>>

\* RoutedMessage::verify
RoutedMessage_verify(msg) ==
    msg.signature = RoutedSignature(msg.author, msg.target, msg.body)

\* RoutedMessage::expect_response
expect_response(msg) == msg.body.kind \in {"Ping", "TxStatusRequest"}

\* a TTL that is tested and left as it is
decrease_ttl_keeping_ttl(msg) == [msg |-> msg, alive |-> msg.ttl > 0]

\* RoutedMessage::decrease_ttl: the message with its TTL decremented, and
\* whether the TTL is still above 0
decrease_ttl(msg) ==
    LET ttl == saturating_sub(msg.ttl, 1)
    IN  [msg |-> [msg EXCEPT !.ttl = ttl], alive |-> ttl > 0]

\* NetworkState::message_for_me
message_for_me(a, target) == target = a.my_node_id

\* PeerMessage::is_view_client_message
is_view_client_message(msg) ==
    \/ msg.variant = "BlockRequest"
    \/ msg.variant = "Routed" /\ msg.body.kind = "TxStatusRequest"

\* PeerMessage::is_client_message
is_client_message(msg) ==
    \/ msg.variant = "Block"
    \/ msg.variant = "Routed" /\ msg.body.kind \in {"ForwardTx", "BlockApproval"}

RemoveAt(seq, i) == SubSeq(seq, 1, i - 1) \o SubSeq(seq, i + 1, Len(seq))

(***************************************************************************)
(* lru::LruCache: `recent` lists the entries from the least to the most    *)
(* recently used; `older` counts the entries, less recently used than all  *)
(* of `recent`, of keys that do not come again.                            *)
(***************************************************************************)
LruCache_new(cap) == [cap |-> cap, older |-> 0, recent |-> <<>>]

LruCache_len(c) == c.older + Len(c.recent)

LruCache_index(c, key) ==
    IF \E i \in 1..Len(c.recent) : c.recent[i].key = key
    THEN CHOOSE i \in 1..Len(c.recent) : c.recent[i].key = key
    ELSE 0

\* LruCache::get: the value of the key, which becomes the most recently used
LruCache_get(c, key) ==
    LET i == LruCache_index(c, key)
    IN  IF i = 0 THEN [cache |-> c, value |-> None]
        ELSE [cache |-> [c EXCEPT !.recent = Append(RemoveAt(@, i), c.recent[i])],
              value |-> Some(c.recent[i].value)]

\* a cache that evicts nothing
LruCache_put_without_eviction(c, key, value) ==
    LET i == LruCache_index(c, key)
        entry == [key |-> key, value |-> value]
    IN  IF i # 0 THEN [c EXCEPT !.recent = Append(RemoveAt(@, i), entry)]
        ELSE [c EXCEPT !.recent = Append(@, entry)]

\* LruCache::put: a new key evicts the least recently used one of a full cache
LruCache_put(c, key, value) ==
    LET i == LruCache_index(c, key)
        entry == [key |-> key, value |-> value]
    IN  IF i # 0 THEN [c EXCEPT !.recent = Append(RemoveAt(@, i), entry)]
        ELSE IF LruCache_len(c) < c.cap THEN [c EXCEPT !.recent = Append(@, entry)]
        ELSE IF c.older > 0
        THEN [c EXCEPT !.older = @ - 1, !.recent = Append(@, entry)]
        ELSE [c EXCEPT !.recent = Append(Tail(@), entry)]

(***************************************************************************)
(* The actor.  ctx is the state of its actix context: "created" until      *)
(* started() has run, "stopping" once a handler has called ctx.stop(),     *)
(* "stopped" after stopping() has run.  wait holds what the closure passed *)
(* to ctx.wait captured, while the RegisterPeer request is unanswered, and  *)
(* spawned the futures passed to ctx.spawn that have not completed.  clock *)
(* is what the clock of the actor reads.  framed, to_peer_manager, events  *)
(* and dispatched collect what a handler sends, until it returns.          *)
(* txns_loaded tells that the handler of a frame has loaded the counter   *)
(* of transactions and has not yet added to it.                           *)
(* tracker holds the statistics of the connection: the messages received, *)
(* the hashes of the blocks received and of the blocks requested.         *)
(***************************************************************************)
Connecting == [status |-> "Connecting"]

Ready(conn) == [status |-> "Ready", conn |-> conn]

Banned(ban_reason) == [status |-> "Banned", ban_reason |-> ban_reason]

Inbound == [type |-> "Inbound"]

Outbound(peer_id, tier) == [type |-> "Outbound", peer_id |-> peer_id, tier |-> tier]

\* Tracker::default
Tracker_default == [received_messages |-> 0, received |-> {}, requested |-> {}]

\* PeerActor::spawn
spawn(stream_config, force_encoding, ns) ==
    [my_node_id |-> ns.node_id,
     peer_type |-> stream_config.type,
     handshake_spec |->
         IF stream_config.type = "Inbound" THEN None
         ELSE Some([partial_edge_info |-> propose_edge(ns, stream_config.peer_id, None),
                    protocol_version |-> ns.PROTOCOL_VERSION,
                    peer_id |-> stream_config.peer_id,
                    genesis_id |-> ns.genesis_id,
                    tier |-> stream_config.tier]),
     peer_status |-> Connecting,
     protocol_buffers_supported |-> FALSE,
     force_encoding |->
         IF stream_config.type = "Outbound" /\ stream_config.tier = "T1"
         THEN Some("Proto") ELSE force_encoding,
     peer_info |-> IF stream_config.type = "Inbound" THEN None
                   ELSE Some(stream_config.peer_id),
     routed_message_cache |-> LruCache_new(ROUTED_MESSAGE_CACHE_SIZE),
     txns_since_last_block |-> 0,
     txns_loaded |-> FALSE,
     tracker |-> Tracker_default,
     clock |-> 0,
     ctx |-> "created",
     wait |-> None,
     spawned |-> <<>>,
     handshake_timeout |-> FALSE,
     framed |-> <<>>,
     to_peer_manager |-> <<>>,
     events |-> <<>>,
     dispatched |-> <<>>]

\* ctx.stop()
ctx_stop(a) == [a EXCEPT !.ctx = "stopping"]

\* an encoding that is Proto once the handshake is over
encoding_preferring_proto(a) ==
    IF is_some(a.force_encoding) THEN a.force_encoding
    ELSE IF a.protocol_buffers_supported THEN Some("Proto")
    ELSE IF a.peer_status.status = "Connecting" THEN None
    ELSE Some("Proto")

\* PeerActor::encoding
encoding(a) ==
    IF is_some(a.force_encoding) THEN a.force_encoding
    ELSE IF a.protocol_buffers_supported THEN Some("Proto")
    ELSE IF a.peer_status.status = "Connecting" THEN None
    ELSE Some("Borsh")

\* PeerActor::parse_message: the actor it leaves and Ok(msg) or Err
parse_message(a, frame) ==
    IF is_some(encoding(a))
    THEN [actor |-> a, msg |-> deserialize(unwrap(encoding(a)), frame)]
    ELSE IF is_some(deserialize("Proto", frame))
    THEN [actor |-> [a EXCEPT !.protocol_buffers_supported = TRUE],
          msg |-> deserialize("Proto", frame)]
    ELSE [actor |-> a, msg |-> deserialize("Borsh", frame)]

\* Tracker::push_received, has_received, push_request, has_request
push_received(tracker, hash) == [tracker EXCEPT !.received = @ \cup {hash}]

has_received(tracker, hash) == hash \in tracker.received

push_request(tracker, hash) == [tracker EXCEPT !.requested = @ \cup {hash}]

has_request(tracker, hash) == hash \in tracker.requested

\* a send that looks up neither the tracker nor the length of the message
send_message_with_encoding_unchecked(a, msg, enc) ==
    IF a.peer_status.status = "Ready" /\ ~is_allowed(a.peer_status.conn.tier, msg)
    THEN [a EXCEPT !.ctx = "panicked"]
    ELSE [a EXCEPT !.framed = Append(@, serialize(msg, enc))]

\* PeerActor::send_message_with_encoding; sending a message the tier of a
\* ready connection does not allow panics
send_message_with_encoding(a, msg, enc) ==
    IF a.peer_status.status = "Ready" /\ ~is_allowed(a.peer_status.conn.tier, msg)
    THEN [a EXCEPT !.ctx = "panicked"]
    ELSE IF msg.variant = "Block" /\ has_received(a.tracker, msg.block.hash) THEN a
    ELSE LET act == IF msg.variant = "BlockRequest"
                    THEN [a EXCEPT !.tracker = push_request(@, msg.hash)]
                    ELSE a
         IN  IF serialized_len(msg) > NETWORK_MESSAGE_MAX_SIZE_BYTES THEN act
             ELSE [act EXCEPT !.framed = Append(@, serialize(msg, enc))]

\* PeerActor::send_message
send_message(a, msg) ==
    IF is_some(encoding(a))
    THEN send_message_with_encoding(a, msg, unwrap(encoding(a)))
    ELSE send_message_with_encoding(send_message_with_encoding(a, msg, "Proto"),
                                    msg, "Borsh")

\* PeerActor::send_handshake
send_handshake(a, ns, spec) ==
    send_message(a, HandshakeMessage(spec.tier,
        [protocol_version |-> spec.protocol_version,
         oldest_supported_version |-> ns.PEER_MIN_ALLOWED_PROTOCOL_VERSION,
         sender_peer_id |-> a.my_node_id,
         target_peer_id |-> spec.peer_id,
         genesis_id |-> spec.genesis_id,
         partial_edge_info |-> spec.partial_edge_info]))

\* PeerActor::ban_peer
ban_peer(a, ban_reason) == ctx_stop([a EXCEPT !.peer_status = Banned(ban_reason)])

\* peer_manager_addr.send / do_send
send_to_peer_manager(a, msg) == [a EXCEPT !.to_peer_manager = Append(@, msg)]

\* the closure process_handshake passes to ctx.wait, run on the response of
\* the peer manager to RegisterPeer, without the handshake of the inbound side
on_register_peer_response_without_reply(a, ns, res) ==
    LET w == unwrap(a.wait)
        act == [a EXCEPT !.wait = None]
    IN  IF res = "Accept"
        THEN LET ready == [act EXCEPT !.peer_info = Some(w.peer_info),
                                      !.peer_status = Ready(w.conn)]
             IN  IF ready.peer_type # "Inbound" /\ w.tier = "T2"
                 THEN send_message(ready, SyncAccountsData(TRUE))
                 ELSE ready
        ELSE ctx_stop(act)

\* a closure that takes every response of the peer manager for Accept
on_register_peer_response_ready_on_any(a, ns, res) ==
    LET w == unwrap(a.wait)
        act == [a EXCEPT !.wait = None]
        ready == [act EXCEPT !.peer_info = Some(w.peer_info),
                             !.peer_status = Ready(w.conn)]
    IN  IF ready.peer_type = "Inbound"
        THEN send_handshake(ready, ns,
                 [peer_id |-> w.handshake.sender_peer_id,
                  genesis_id |-> ns.genesis_id,
                  tier |-> w.tier,
                  protocol_version |-> w.handshake.protocol_version,
                  partial_edge_info |-> w.partial_edge_info])
        ELSE IF w.tier = "T2"
        THEN send_message(ready, SyncAccountsData(TRUE))
        ELSE ready

\* the closure process_handshake passes to ctx.wait, run on the response of
\* the peer manager to RegisterPeer
on_register_peer_response(a, ns, res) ==
    LET w == unwrap(a.wait)
        act == [a EXCEPT !.wait = None]
    IN  IF res = "Accept"
        THEN LET ready == [act EXCEPT !.peer_info = Some(w.peer_info),
                                      !.peer_status = Ready(w.conn)]
             IN  IF ready.peer_type = "Inbound"
                 THEN send_handshake(ready, ns,
                          [peer_id |-> w.handshake.sender_peer_id,
                           genesis_id |-> ns.genesis_id,
                           tier |-> w.tier,
                           protocol_version |-> w.handshake.protocol_version,
                           partial_edge_info |-> w.partial_edge_info])
                 ELSE IF w.tier = "T2"
                 THEN send_message(ready, SyncAccountsData(TRUE))
                 ELSE ready
        ELSE ctx_stop(act)

\* process_handshake taking a nonce equal to the one of the local edge for a new one
process_handshake_accepting_equal_nonce(a, ns, tier, handshake) ==
    LET spec == unwrap(a.handshake_spec)
        last_edge == get_local_edge(ns, handshake.sender_peer_id)
        nonce == handshake.partial_edge_info.nonce
        partial_edge_info ==
            IF a.peer_type = "Outbound" THEN spec.partial_edge_info
            ELSE propose_edge(ns, handshake.sender_peer_id, Some(nonce))
        edge == Edge_new(a.my_node_id, handshake.sender_peer_id, nonce,
                         partial_edge_info.signature,
                         handshake.partial_edge_info.signature)
        peer_info == handshake.sender_peer_id
        conn == [tier |-> tier, peer_info |-> peer_info, edge |-> edge,
                 peer_type |-> a.peer_type,
                 last_time_received_message |-> a.clock]
    IN  IF a.peer_type = "Outbound"
           /\ \/ handshake.protocol_version # spec.protocol_version
              \/ handshake.genesis_id # spec.genesis_id
              \/ handshake.sender_peer_id # spec.peer_id
              \/ tier # spec.tier
              \/ handshake.partial_edge_info.nonce # spec.partial_edge_info.nonce
        THEN ctx_stop(a)
        ELSE IF a.peer_type # "Outbound"
                /\ \/ ns.PEER_MIN_ALLOWED_PROTOCOL_VERSION > handshake.protocol_version
                   \/ handshake.protocol_version > ns.PROTOCOL_VERSION
        THEN send_message(a, HandshakeFailure(a.my_node_id,
                 [kind |-> "ProtocolVersionMismatch",
                  version |-> ns.PROTOCOL_VERSION,
                  oldest_supported_version |-> ns.PEER_MIN_ALLOWED_PROTOCOL_VERSION]))
        ELSE IF a.peer_type # "Outbound" /\ handshake.genesis_id # ns.genesis_id
        THEN send_message(a, HandshakeFailure(a.my_node_id,
                 [kind |-> "GenesisMismatch", genesis |-> ns.genesis_id]))
        ELSE IF a.peer_type # "Outbound" /\ handshake.target_peer_id # a.my_node_id
        THEN send_message(a, HandshakeFailure(a.my_node_id, [kind |-> "InvalidTarget"]))
        ELSE IF a.peer_type # "Outbound" /\ ~verify_nonce(ns.clock, nonce)
        THEN ctx_stop(a)
        ELSE IF a.peer_type # "Outbound" /\ is_some(last_edge)
                /\ unwrap(last_edge).nonce > nonce
        THEN send_message(a, LastEdge(unwrap(last_edge)))
        ELSE IF handshake.sender_peer_id = a.my_node_id
        THEN ctx_stop(a)
        ELSE IF ~Edge_partial_verify(a.my_node_id, handshake.sender_peer_id,
                                     handshake.partial_edge_info)
        THEN ctx_stop(ban_peer(a, "InvalidSignature"))
        ELSE send_to_peer_manager(
                 [a EXCEPT !.wait = Some([conn |-> conn, peer_info |-> peer_info,
                                          handshake |-> handshake, tier |-> tier,
                                          partial_edge_info |-> partial_edge_info])],
                 [msg |-> "RegisterPeer", connection |-> conn])

\* process_handshake checking the genesis before the version
process_handshake_genesis_first(a, ns, tier, handshake) ==
    LET spec == unwrap(a.handshake_spec)
        last_edge == get_local_edge(ns, handshake.sender_peer_id)
        nonce == handshake.partial_edge_info.nonce
        partial_edge_info ==
            IF a.peer_type = "Outbound" THEN spec.partial_edge_info
            ELSE propose_edge(ns, handshake.sender_peer_id, Some(nonce))
        edge == Edge_new(a.my_node_id, handshake.sender_peer_id, nonce,
                         partial_edge_info.signature,
                         handshake.partial_edge_info.signature)
        peer_info == handshake.sender_peer_id
        conn == [tier |-> tier, peer_info |-> peer_info, edge |-> edge,
                 peer_type |-> a.peer_type,
                 last_time_received_message |-> a.clock]
    IN  IF a.peer_type = "Outbound"
           /\ \/ handshake.protocol_version # spec.protocol_version
              \/ handshake.genesis_id # spec.genesis_id
              \/ handshake.sender_peer_id # spec.peer_id
              \/ tier # spec.tier
              \/ handshake.partial_edge_info.nonce # spec.partial_edge_info.nonce
        THEN ctx_stop(a)
        ELSE IF a.peer_type # "Outbound" /\ handshake.genesis_id # ns.genesis_id
        THEN send_message(a, HandshakeFailure(a.my_node_id,
                 [kind |-> "GenesisMismatch", genesis |-> ns.genesis_id]))
        ELSE IF a.peer_type # "Outbound"
                /\ \/ ns.PEER_MIN_ALLOWED_PROTOCOL_VERSION > handshake.protocol_version
                   \/ handshake.protocol_version > ns.PROTOCOL_VERSION
        THEN send_message(a, HandshakeFailure(a.my_node_id,
                 [kind |-> "ProtocolVersionMismatch",
                  version |-> ns.PROTOCOL_VERSION,
                  oldest_supported_version |-> ns.PEER_MIN_ALLOWED_PROTOCOL_VERSION]))
        ELSE IF a.peer_type # "Outbound" /\ handshake.target_peer_id # a.my_node_id
        THEN send_message(a, HandshakeFailure(a.my_node_id, [kind |-> "InvalidTarget"]))
        ELSE IF a.peer_type # "Outbound" /\ ~verify_nonce(ns.clock, nonce)
        THEN ctx_stop(a)
        ELSE IF a.peer_type # "Outbound" /\ is_some(last_edge)
                /\ unwrap(last_edge).nonce >= nonce
        THEN send_message(a, LastEdge(unwrap(last_edge)))
        ELSE IF handshake.sender_peer_id = a.my_node_id
        THEN ctx_stop(a)
        ELSE IF ~Edge_partial_verify(a.my_node_id, handshake.sender_peer_id,
                                     handshake.partial_edge_info)
        THEN ctx_stop(ban_peer(a, "InvalidSignature"))
        ELSE send_to_peer_manager(
                 [a EXCEPT !.wait = Some([conn |-> conn, peer_info |-> peer_info,
                                          handshake |-> handshake, tier |-> tier,
                                          partial_edge_info |-> partial_edge_info])],
                 [msg |-> "RegisterPeer", connection |-> conn])

\* process_handshake of an outbound machine that does not compare the version
process_handshake_any_version(a, ns, tier, handshake) ==
    LET spec == unwrap(a.handshake_spec)
        last_edge == get_local_edge(ns, handshake.sender_peer_id)
        nonce == handshake.partial_edge_info.nonce
        partial_edge_info ==
            IF a.peer_type = "Outbound" THEN spec.partial_edge_info
            ELSE propose_edge(ns, handshake.sender_peer_id, Some(nonce))
        edge == Edge_new(a.my_node_id, handshake.sender_peer_id, nonce,
                         partial_edge_info.signature,
                         handshake.partial_edge_info.signature)
        peer_info == handshake.sender_peer_id
        conn == [tier |-> tier, peer_info |-> peer_info, edge |-> edge,
                 peer_type |-> a.peer_type,
                 last_time_received_message |-> a.clock]
    IN  IF a.peer_type = "Outbound"
           /\ \/ handshake.genesis_id # spec.genesis_id
              \/ handshake.sender_peer_id # spec.peer_id
              \/ tier # spec.tier
              \/ handshake.partial_edge_info.nonce # spec.partial_edge_info.nonce
        THEN ctx_stop(a)
        ELSE IF a.peer_type # "Outbound"
                /\ \/ ns.PEER_MIN_ALLOWED_PROTOCOL_VERSION > handshake.protocol_version
                   \/ handshake.protocol_version > ns.PROTOCOL_VERSION
        THEN send_message(a, HandshakeFailure(a.my_node_id,
                 [kind |-> "ProtocolVersionMismatch",
                  version |-> ns.PROTOCOL_VERSION,
                  oldest_supported_version |-> ns.PEER_MIN_ALLOWED_PROTOCOL_VERSION]))
        ELSE IF a.peer_type # "Outbound" /\ handshake.genesis_id # ns.genesis_id
        THEN send_message(a, HandshakeFailure(a.my_node_id,
                 [kind |-> "GenesisMismatch", genesis |-> ns.genesis_id]))
        ELSE IF a.peer_type # "Outbound" /\ handshake.target_peer_id # a.my_node_id
        THEN send_message(a, HandshakeFailure(a.my_node_id, [kind |-> "InvalidTarget"]))
        ELSE IF a.peer_type # "Outbound" /\ ~verify_nonce(ns.clock, nonce)
        THEN ctx_stop(a)
        ELSE IF a.peer_type # "Outbound" /\ is_some(last_edge)
                /\ unwrap(last_edge).nonce >= nonce
        THEN send_message(a, LastEdge(unwrap(last_edge)))
        ELSE IF handshake.sender_peer_id = a.my_node_id
        THEN ctx_stop(a)
        ELSE IF ~Edge_partial_verify(a.my_node_id, handshake.sender_peer_id,
                                     handshake.partial_edge_info)
        THEN ctx_stop(ban_peer(a, "InvalidSignature"))
        ELSE send_to_peer_manager(
                 [a EXCEPT !.wait = Some([conn |-> conn, peer_info |-> peer_info,
                                          handshake |-> handshake, tier |-> tier,
                                          partial_edge_info |-> partial_edge_info])],
                 [msg |-> "RegisterPeer", connection |-> conn])

\* PeerActor::process_handshake, up to the request it sends to the peer manager
process_handshake(a, ns, tier, handshake) ==
    LET spec == unwrap(a.handshake_spec)
        last_edge == get_local_edge(ns, handshake.sender_peer_id)
        nonce == handshake.partial_edge_info.nonce
        partial_edge_info ==
            IF a.peer_type = "Outbound" THEN spec.partial_edge_info
            ELSE propose_edge(ns, handshake.sender_peer_id, Some(nonce))
        edge == Edge_new(a.my_node_id, handshake.sender_peer_id, nonce,
                         partial_edge_info.signature,
                         handshake.partial_edge_info.signature)
        peer_info == handshake.sender_peer_id
        conn == [tier |-> tier, peer_info |-> peer_info, edge |-> edge,
                 peer_type |-> a.peer_type,
                 last_time_received_message |-> a.clock]
    IN  IF a.peer_type = "Outbound"
           /\ \/ handshake.protocol_version # spec.protocol_version
              \/ handshake.genesis_id # spec.genesis_id
              \/ handshake.sender_peer_id # spec.peer_id
              \/ tier # spec.tier
              \/ handshake.partial_edge_info.nonce # spec.partial_edge_info.nonce
        THEN ctx_stop(a)
        ELSE IF a.peer_type # "Outbound"
                /\ \/ ns.PEER_MIN_ALLOWED_PROTOCOL_VERSION > handshake.protocol_version
                   \/ handshake.protocol_version > ns.PROTOCOL_VERSION
        THEN send_message(a, HandshakeFailure(a.my_node_id,
                 [kind |-> "ProtocolVersionMismatch",
                  version |-> ns.PROTOCOL_VERSION,
                  oldest_supported_version |-> ns.PEER_MIN_ALLOWED_PROTOCOL_VERSION]))
        ELSE IF a.peer_type # "Outbound" /\ handshake.genesis_id # ns.genesis_id
        THEN send_message(a, HandshakeFailure(a.my_node_id,
                 [kind |-> "GenesisMismatch", genesis |-> ns.genesis_id]))
        ELSE IF a.peer_type # "Outbound" /\ handshake.target_peer_id # a.my_node_id
        THEN send_message(a, HandshakeFailure(a.my_node_id, [kind |-> "InvalidTarget"]))
        ELSE IF a.peer_type # "Outbound" /\ ~verify_nonce(ns.clock, nonce)
        THEN ctx_stop(a)
        ELSE IF a.peer_type # "Outbound" /\ is_some(last_edge)
                /\ unwrap(last_edge).nonce >= nonce
        THEN send_message(a, LastEdge(unwrap(last_edge)))
        ELSE IF handshake.sender_peer_id = a.my_node_id
        THEN ctx_stop(a)
        ELSE IF ~Edge_partial_verify(a.my_node_id, handshake.sender_peer_id,
                                     handshake.partial_edge_info)
        THEN ctx_stop(ban_peer(a, "InvalidSignature"))
        ELSE send_to_peer_manager(
                 [a EXCEPT !.wait = Some([conn |-> conn, peer_info |-> peer_info,
                                          handshake |-> handshake, tier |-> tier,
                                          partial_edge_info |-> partial_edge_info])],
                 [msg |-> "RegisterPeer", connection |-> conn])

\* handle_msg_connecting retrying with the version of the remote, whatever it is
handle_msg_connecting_with_their_version(a, ns, msg) ==
    LET spec == unwrap(a.handshake_spec)
    IN  CASE msg.variant = "HandshakeFailure" ->
                 IF a.peer_type = "Inbound" THEN ctx_stop(a)
                 ELSE (CASE msg.reason.kind = "GenesisMismatch" -> ctx_stop(a)
                        [] msg.reason.kind = "ProtocolVersionMismatch" ->
                               LET common_version ==
                                       msg.reason.version
                                   new_spec ==
                                       [spec EXCEPT !.protocol_version = common_version]
                               IN  IF \/ common_version < msg.reason.oldest_supported_version
                                      \/ common_version < ns.PEER_MIN_ALLOWED_PROTOCOL_VERSION
                                   THEN ctx_stop(a)
                                   ELSE send_handshake(
                                            [a EXCEPT !.handshake_spec = Some(new_spec)],
                                            ns, new_spec)
                        [] msg.reason.kind = "InvalidTarget" ->
                               ctx_stop(send_to_peer_manager(a,
                                   [msg |-> "UpdatePeerInfo", peer_info |-> msg.peer_info])))
          [] msg.variant = "LastEdge" ->
                 IF a.peer_type = "Inbound" THEN ctx_stop(a)
                 ELSE IF ~Edge_verify(msg.edge) THEN ctx_stop(a)
                 ELSE LET new_spec ==
                              [spec EXCEPT !.partial_edge_info =
                                  propose_edge(ns, spec.peer_id, Some(Edge_next(msg.edge)))]
                      IN  send_handshake([a EXCEPT !.handshake_spec = Some(new_spec)],
                                         ns, new_spec)
          [] msg.variant = "Tier1Handshake" -> process_handshake(a, ns, "T1", msg.handshake)
          [] msg.variant = "Tier2Handshake" -> process_handshake(a, ns, "T2", msg.handshake)
          [] OTHER -> a

\* handle_msg_connecting without the verification of the edge of LastEdge
handle_msg_connecting_trusting_the_edge(a, ns, msg) ==
    LET spec == unwrap(a.handshake_spec)
    IN  CASE msg.variant = "HandshakeFailure" ->
                 IF a.peer_type = "Inbound" THEN ctx_stop(a)
                 ELSE (CASE msg.reason.kind = "GenesisMismatch" -> ctx_stop(a)
                        [] msg.reason.kind = "ProtocolVersionMismatch" ->
                               LET common_version ==
                                       IF msg.reason.version <= ns.PROTOCOL_VERSION
                                       THEN msg.reason.version ELSE ns.PROTOCOL_VERSION
                                   new_spec ==
                                       [spec EXCEPT !.protocol_version = common_version]
                               IN  IF \/ common_version < msg.reason.oldest_supported_version
                                      \/ common_version < ns.PEER_MIN_ALLOWED_PROTOCOL_VERSION
                                   THEN ctx_stop(a)
                                   ELSE send_handshake(
                                            [a EXCEPT !.handshake_spec = Some(new_spec)],
                                            ns, new_spec)
                        [] msg.reason.kind = "InvalidTarget" ->
                               ctx_stop(send_to_peer_manager(a,
                                   [msg |-> "UpdatePeerInfo", peer_info |-> msg.peer_info])))
          [] msg.variant = "LastEdge" ->
                 IF a.peer_type = "Inbound" THEN ctx_stop(a)
                 ELSE LET new_spec ==
                              [spec EXCEPT !.partial_edge_info =
                                  propose_edge(ns, spec.peer_id, Some(Edge_next(msg.edge)))]
                      IN  send_handshake([a EXCEPT !.handshake_spec = Some(new_spec)],
                                         ns, new_spec)
          [] msg.variant = "Tier1Handshake" -> process_handshake(a, ns, "T1", msg.handshake)
          [] msg.variant = "Tier2Handshake" -> process_handshake(a, ns, "T2", msg.handshake)
          [] OTHER -> a

\* PeerActor::handle_msg_connecting
handle_msg_connecting(a, ns, msg) ==
    LET spec == unwrap(a.handshake_spec)
    IN  CASE msg.variant = "HandshakeFailure" ->
                 IF a.peer_type = "Inbound" THEN ctx_stop(a)
                 ELSE (CASE msg.reason.kind = "GenesisMismatch" -> ctx_stop(a)
                        [] msg.reason.kind = "ProtocolVersionMismatch" ->
                               LET common_version ==
                                       IF msg.reason.version <= ns.PROTOCOL_VERSION
                                       THEN msg.reason.version ELSE ns.PROTOCOL_VERSION
                                   new_spec ==
                                       [spec EXCEPT !.protocol_version = common_version]
                               IN  IF \/ common_version < msg.reason.oldest_supported_version
                                      \/ common_version < ns.PEER_MIN_ALLOWED_PROTOCOL_VERSION
                                   THEN ctx_stop(a)
                                   ELSE send_handshake(
                                            [a EXCEPT !.handshake_spec = Some(new_spec)],
                                            ns, new_spec)
                        [] msg.reason.kind = "InvalidTarget" ->
                               ctx_stop(send_to_peer_manager(a,
                                   [msg |-> "UpdatePeerInfo", peer_info |-> msg.peer_info])))
          [] msg.variant = "LastEdge" ->
                 IF a.peer_type = "Inbound" THEN ctx_stop(a)
                 ELSE IF ~Edge_verify(msg.edge) THEN ctx_stop(a)
                 ELSE LET new_spec ==
                              [spec EXCEPT !.partial_edge_info =
                                  propose_edge(ns, spec.peer_id, Some(Edge_next(msg.edge)))]
                      IN  send_handshake([a EXCEPT !.handshake_spec = Some(new_spec)],
                                         ns, new_spec)
          [] msg.variant = "Tier1Handshake" -> process_handshake(a, ns, "T1", msg.handshake)
          [] msg.variant = "Tier2Handshake" -> process_handshake(a, ns, "T2", msg.handshake)
          [] OTHER -> a

\* ctx.spawn: the future runs when what it awaits has answered
ctx_spawn(a, fut) == [a EXCEPT !.spawned = Append(@, fut)]

\* client_addr.send, view_client_addr.send, NetworkState::send_message_to_peer
\* and the insertion of a route back: what leaves the actor for `sink`
dispatch(a, sink, msg) == [a EXCEPT !.dispatched = Append(@, [sink |-> sink, msg |-> msg])]

\* event_sink.push
push_event(a, event) == [a EXCEPT !.events = Append(@, event)]

\* PeerActor::receive_view_client_message
receive_view_client_message(a, conn, msg) ==
    IF msg.variant = "Routed"
    THEN IF msg.body.kind = "TxStatusRequest"
         THEN ctx_spawn(dispatch(a, "view_client",
                            [kind |-> "TxStatus", tx_hash |-> msg.body.id]),
                        [awaits |-> "view_client", msg_hash |-> Some(RoutedMessage_hash(msg)),
                         tier |-> conn.tier])
         ELSE a
    ELSE IF msg.variant = "BlockRequest"
    THEN ctx_spawn(dispatch(a, "view_client", [kind |-> "BlockRequest", hash |-> msg.hash]),
                   [awaits |-> "view_client", msg_hash |-> None, tier |-> conn.tier])
    ELSE a

\* PeerActor::receive_client_message
receive_client_message(a, conn, msg) ==
    IF msg.variant = "Block"
    THEN LET act == [a EXCEPT !.tracker = push_received(@, msg.block.hash)]
         IN  ctx_spawn(dispatch(act, "client",
                           [kind |-> "Block", block |-> msg.block,
                            peer_id |-> conn.peer_info,
                            was_requested |-> has_request(act.tracker, msg.block.hash)]),
                       [awaits |-> "client", msg |-> msg])
    ELSE IF msg.variant = "Routed" /\ msg.body.kind = "BlockApproval"
    THEN ctx_spawn(dispatch(a, "client",
                       [kind |-> "BlockApproval", approval |-> msg.body.id,
                        peer_id |-> conn.peer_info]),
                   [awaits |-> "client", msg |-> msg])
    ELSE IF msg.variant = "Routed" /\ msg.body.kind = "ForwardTx"
    THEN ctx_spawn(dispatch(a, "client",
                       [kind |-> "Transaction", transaction |-> msg.body.id,
                        is_forwarded |-> TRUE, check_only |-> FALSE]),
                   [awaits |-> "client", msg |-> msg])
    ELSE a

\* PeerActor::receive_message
receive_message(a, conn, msg) ==
    IF is_view_client_message(msg) THEN receive_view_client_message(a, conn, msg)
    ELSE IF is_client_message(msg) THEN receive_client_message(a, conn, msg)
    ELSE a

\* PeerActor::handle_msg_ready.  A request for a full sync of the accounts
\* data is answered at once, and the (empty) data needs no check.
handle_msg_ready(a, conn, msg) ==
    CASE msg.variant = "Disconnect" -> ctx_stop(a)
      [] msg.variant \in {"Tier1Handshake", "Tier2Handshake"} -> a
      [] msg.variant = "PeersRequest" ->
             ctx_spawn(send_to_peer_manager(a, [msg |-> "PeersRequest"]),
                       [awaits |-> "PeersRequest"])
      [] msg.variant = "PeersResponse" ->
             send_to_peer_manager(a, [msg |-> "PeersResponse", peers |-> msg.peers])
      [] msg.variant = "RequestUpdateNonce" ->
             ctx_spawn(send_to_peer_manager(a,
                           [msg |-> "RequestUpdateNonce", peer_id |-> unwrap(a.peer_info),
                            edge_info |-> msg.edge_info]),
                       [awaits |-> "RequestUpdateNonce"])
      [] msg.variant = "ResponseUpdateNonce" ->
             ctx_spawn(send_to_peer_manager(a,
                           [msg |-> "ResponseUpdateNonce", edge |-> msg.edge]),
                       [awaits |-> "ResponseUpdateNonce"])
      [] msg.variant = "SyncAccountsData" ->
             IF msg.requesting_full_sync
             THEN send_message(a, SyncAccountsData(FALSE))
             ELSE a
      [] msg.variant = "Routed" ->
             IF ~RoutedMessage_verify(msg) THEN ban_peer(a, "InvalidSignature")
             ELSE LET act == IF expect_response(msg)
                             THEN dispatch(a, "route_back",
                                      [hash |-> RoutedMessage_hash(msg),
                                       from |-> conn.peer_info])
                             ELSE a
                  IN  IF message_for_me(act, msg.target)
                      THEN IF msg.body.kind = "Ping"
                           THEN push_event(push_event(
                                    dispatch(act, "peer",
                                        [kind |-> "Pong", nonce |-> msg.body.id,
                                         target |-> RoutedMessage_hash(msg),
                                         tier |-> conn.tier]),
                                    "Ping"), "MessageProcessed")
                           ELSE IF msg.body.kind = "Pong"
                           THEN push_event(push_event(act, "Pong"), "MessageProcessed")
                           ELSE receive_message(act, conn, msg)
                      ELSE IF decrease_ttl(msg).alive
                      THEN dispatch(act, "peer",
                               [kind |-> "Routed", msg |-> decrease_ttl(msg).msg,
                                tier |-> conn.tier])
                      ELSE push_event(act, "RoutedMessageDropped")
      [] OTHER -> receive_message(a, conn, msg)

\* the routed messages are recorded whether they are duplicates or not
receive_routed_recording_every_arrival(a, msg) ==
    CASE msg.variant = "Routed" ->
             LET key == <<msg.author, msg.target, msg.signature>>
                 now == a.clock
                 got == LruCache_get(a.routed_message_cache, key)
                 act == [a EXCEPT !.routed_message_cache = LruCache_put(got.cache, key, now)]
             IN  IF is_some(got.value)
                    /\ now <= unwrap(got.value) + DROP_DUPLICATED_MESSAGES_PERIOD
                 THEN [actor |-> act, returned |-> TRUE]
                 ELSE IF msg.body.kind = "ForwardTx"
                         /\ act.txns_since_last_block > MAX_TRANSACTIONS_PER_BLOCK_MESSAGE
                 THEN [actor |-> act, returned |-> TRUE]
                 ELSE [actor |->
                          [act EXCEPT !.txns_since_last_block =
                                          IF msg.body.kind = "ForwardTx" THEN @ + 1 ELSE @],
                       returned |-> FALSE]
      [] msg.variant = "Block" ->
             [actor |-> [a EXCEPT !.txns_since_last_block = 0], returned |-> FALSE]
      [] OTHER -> [actor |-> a, returned |-> FALSE]

\* a period of duplicates that ends one instant early
receive_routed_with_open_period(a, msg) ==
    CASE msg.variant = "Routed" ->
             LET key == <<msg.author, msg.target, msg.signature>>
                 now == a.clock
                 got == LruCache_get(a.routed_message_cache, key)
                 act == [a EXCEPT !.routed_message_cache = got.cache]
             IN  IF is_some(got.value)
                    /\ now < unwrap(got.value) + DROP_DUPLICATED_MESSAGES_PERIOD
                 THEN [actor |-> act, returned |-> TRUE]
                 ELSE IF msg.body.kind = "ForwardTx"
                         /\ act.txns_since_last_block > MAX_TRANSACTIONS_PER_BLOCK_MESSAGE
                 THEN [actor |-> act, returned |-> TRUE]
                 ELSE [actor |->
                          [act EXCEPT !.txns_since_last_block =
                                          IF msg.body.kind = "ForwardTx" THEN @ + 1 ELSE @,
                                      !.routed_message_cache = LruCache_put(@, key, now)],
                       returned |-> FALSE]
      [] msg.variant = "Block" ->
             [actor |-> [a EXCEPT !.txns_since_last_block = 0], returned |-> FALSE]
      [] OTHER -> [actor |-> a, returned |-> FALSE]

\* Handler<stream::Frame>::handle, between the parse and the match on the
\* status: the actor it leaves, and whether the handler has returned.
\* txns_since_last_block is the counter of the network state, as this actor
\* reads and writes it.
receive_routed(a, msg) ==
    CASE msg.variant = "Routed" ->
             LET key == <<msg.author, msg.target, msg.signature>>
                 now == a.clock
                 got == LruCache_get(a.routed_message_cache, key)
                 act == [a EXCEPT !.routed_message_cache = got.cache]
             IN  IF is_some(got.value)
                    /\ now <= unwrap(got.value) + DROP_DUPLICATED_MESSAGES_PERIOD
                 THEN [actor |-> act, returned |-> TRUE]
                 ELSE IF msg.body.kind = "ForwardTx"
                         /\ act.txns_since_last_block > MAX_TRANSACTIONS_PER_BLOCK_MESSAGE
                 THEN [actor |-> act, returned |-> TRUE]
                 ELSE [actor |->
                          [act EXCEPT !.txns_since_last_block =
                                          IF msg.body.kind = "ForwardTx" THEN @ + 1 ELSE @,
                                      !.routed_message_cache = LruCache_put(@, key, now)],
                       returned |-> FALSE]
      [] msg.variant = "Block" ->
             [actor |-> [a EXCEPT !.txns_since_last_block = 0], returned |-> FALSE]
      [] OTHER -> [actor |-> a, returned |-> FALSE]

\* PeerActor::update_stats_on_receiving_message
update_stats_on_receiving_message(a) ==
    [a EXCEPT !.tracker.received_messages = @ + 1]

\* conn.last_time_received_message.store(self.clock.now())
store_last_time_received_message(a) ==
    [a EXCEPT !.peer_status.conn.last_time_received_message = a.clock]

\* Handler<stream::Frame>::handle
handle_frame(a, ns, frame) ==
    LET parsed == parse_message(update_stats_on_receiving_message(a), frame)
        peer_msg == unwrap(parsed.msg)
        received == receive_routed(parsed.actor, peer_msg)
        act == received.actor
    IN  IF ~is_some(parsed.msg) THEN parsed.actor
        ELSE IF received.returned THEN act
        ELSE CASE act.peer_status.status = "Connecting" ->
                      handle_msg_connecting(act, ns, peer_msg)
               [] act.peer_status.status = "Ready" ->
                      LET stored == store_last_time_received_message(act)
                      IN  IF ~is_allowed(stored.peer_status.conn.tier, peer_msg)
                          THEN ctx_stop(stored)
                          ELSE handle_msg_ready(stored, stored.peer_status.conn, peer_msg)
               [] OTHER -> act

\* Actor::started: arms the handshake timeout; an outbound actor sends its handshake
started(a, ns) ==
    LET act == [a EXCEPT !.ctx = "running", !.handshake_timeout = TRUE]
    IN  push_event(IF act.peer_type = "Outbound"
                   THEN send_handshake(act, ns, unwrap(act.handshake_spec))
                   ELSE act,
                   "PeerActorStarted")

\* a timeout that stops no actor
on_handshake_timeout_without_stop(a) == [a EXCEPT !.handshake_timeout = FALSE]

\* the closure started() passes to run_later
on_handshake_timeout(a) ==
    LET act == [a EXCEPT !.handshake_timeout = FALSE]
    IN  IF act.peer_status.status = "Connecting" THEN ctx_stop(act) ELSE act

\* a teardown that asks to remove the peer from the peer store whatever the
\* status
stopping_removing_from_peer_store(a) ==
    LET act == [a EXCEPT !.ctx = "stopped"]
    IN  IF ~is_some(act.peer_info) THEN act
        ELSE IF act.peer_status.status = "Banned"
        THEN send_to_peer_manager(act,
                 [msg |-> "Ban", peer_id |-> unwrap(act.peer_info),
                  ban_reason |-> act.peer_status.ban_reason])
        ELSE send_to_peer_manager(act,
                 [msg |-> "Unregister", peer_id |-> unwrap(act.peer_info),
                  peer_type |-> act.peer_type,
                  remove_from_peer_store |-> TRUE])

\* Actor::stopping
stopping(a) ==
    LET act == [a EXCEPT !.ctx = "stopped"]
    IN  IF ~is_some(act.peer_info) THEN act
        ELSE IF act.peer_status.status = "Banned"
        THEN send_to_peer_manager(act,
                 [msg |-> "Ban", peer_id |-> unwrap(act.peer_info),
                  ban_reason |-> act.peer_status.ban_reason])
        ELSE send_to_peer_manager(act,
                 [msg |-> "Unregister", peer_id |-> unwrap(act.peer_info),
                  peer_type |-> act.peer_type,
                  remove_from_peer_store |-> act.peer_status.status # "Connecting"])

\* a guard that reports nothing when it is dropped
drop_connection_guard_silently(a) == a

\* Drop for ConnectionGuard: the guard is a field of the actor and is dropped
\* with it, once the actor has stopped
drop_connection_guard(a) == push_event(a, "ConnectionClosed")

\* Handler<stream::Error>::handle banning the peer for every error
handle_stream_error_banning_always(a, err) == ctx_stop(ban_peer(a, "Abusive"))

\* Handler<stream::Error>::handle
handle_stream_error(a, err) ==
    IF err = "MessageTooLarge" THEN ctx_stop(ban_peer(a, "Abusive")) ELSE ctx_stop(a)

(***************************************************************************)
(* The nodes.  The outbound node has id 1 and the inbound node id 2; both  *)
(* are on one chain.  PROTOCOL_VERSION and                                 *)
(* PEER_MIN_ALLOWED_PROTOCOL_VERSION are constants of the binary a node    *)
(* runs (near_primitives::version): the inbound node supports [55, 58],    *)
(* the outbound node the same or [55, 60], as in scenario S4.  Either node *)
(* may know an earlier edge between the two (nonce 5 at the outbound node, *)
(* nonce 7 at the inbound node, as in scenario S5), the pool of either     *)
(* node accepts or rejects the connection, and the clock of the inbound    *)
(* node accepts the nonces up to 8 or up to 12.                            *)
(***************************************************************************)
NetworkStates(node_id, peer_id, versions, nonces, clocks) ==
    {[node_id |-> node_id,
      genesis_id |-> "genesis",
      PROTOCOL_VERSION |-> v,
      PEER_MIN_ALLOWED_PROTOCOL_VERSION |-> 55,
      routing_table_view |-> rt,
      clock |-> c,
      pool_accepts |-> p] :
        v \in versions,
        rt \in {EmptyMap} \cup {MapPut(EmptyMap, peer_id, SignedEdge(node_id, peer_id, n)) :
                                   n \in nonces},
        c \in clocks,
        p \in BOOLEAN}

OutboundNodes == NetworkStates(1, 2, {58, 60}, {5}, {12})

InboundNodes == NetworkStates(2, 1, {58}, {7}, {8, 12})

ForceEncodings == {None} \cup {Some(e) : e \in Encodings}

PeerInit ==
    /\ CacheInit
    /\ network_state \in [outbound : OutboundNodes, inbound : InboundNodes]
    /\ \E tier \in Tiers, outbound_encoding, inbound_encoding \in ForceEncodings :
           actors = [outbound |-> spawn(Outbound(network_state.inbound.node_id, tier),
                                        outbound_encoding, network_state.outbound),
                     inbound |-> spawn(Inbound, inbound_encoding, network_state.inbound)]
    /\ stream = [m \in Machines |-> <<>>]
    /\ peer_manager = [m \in Machines |-> <<>>]
    /\ event_sink = [m \in Machines |-> <<>>]
    /\ dispatched = [m \in Machines |-> <<>>]
    /\ received_at = [m \in Machines |-> EmptyMap]
    /\ inbound_handshake_permits = MaxInboundHandshakePermits - 1
    /\ hostile = 0
    /\ handshake_timed_out = {}
    /\ renegotiated = [m \in Machines |-> 0]
    /\ txns_since_last_block = 0

\* the inbound handshake permits actor a owns: the one spawn acquires and
\* moves into PeerStatus::Connecting(ConnectingStatus::Inbound(permit)), until
\* the status is overwritten or the actor is dropped
permits_owned(a) ==
    IF /\ a.peer_type = "Inbound"
       /\ a.peer_status.status = "Connecting"
       /\ a.ctx \in {"created", "running", "stopping"}
    THEN 1 ELSE 0

\* a handler of machine m has returned and left actor a, after taking
\* `handled` frames from the stream: a stopping actor runs stopping() and is
\* dropped, the frames written go to the remote, the requests to the peer
\* manager, the events to the sink and the rest to the client, the view client
\* and the peers; a permit the actor has acquired is taken from the semaphore,
\* a permit it has dropped goes back to it
Commit(m, a, handled) ==
    LET act == IF a.ctx = "stopping" THEN drop_connection_guard(stopping(a)) ELSE a
    IN  /\ actors' = [actors EXCEPT ![m] = [act EXCEPT !.framed = <<>>,
                                                       !.to_peer_manager = <<>>,
                                                       !.events = <<>>,
                                                       !.dispatched = <<>>]]
        /\ stream' = [n \in DOMAIN stream |->
                         IF n = m
                         THEN SubSeq(stream[m], handled + 1, Len(stream[m]))
                         ELSE IF n = remote(m) THEN stream[n] \o act.framed
                         ELSE stream[n]]
        /\ peer_manager' = [peer_manager EXCEPT ![m] = @ \o act.to_peer_manager]
        /\ event_sink' = [event_sink EXCEPT ![m] = @ \o act.events]
        /\ dispatched' = [dispatched EXCEPT ![m] = @ \o act.dispatched]
        /\ inbound_handshake_permits' =
               inbound_handshake_permits + permits_owned(actors[m]) - permits_owned(act)
        /\ UNCHANGED <<network_state, hostile, cache_vars>>

\* the context handles messages and timers: it runs and is not in ctx.wait
CanHandle(m) == actors[m].ctx = "running" /\ ~is_some(actors[m].wait)

Started(m) ==
    /\ actors[m].ctx = "created"
    /\ Commit(m, started(actors[m], network_state[m]), 0)
    /\ UNCHANGED <<received_at, txns_since_last_block, handshake_timed_out, renegotiated>>

\* what the reader task of an actor delivers to it: the frames it received
\* and, last, the error that ended it
IsFrame(item) == "encoding" \in DOMAIN item

IsHandshake(msg) == msg.variant \in {"Tier1Handshake", "Tier2Handshake"}

\* handling the frame, the actor re-sends its handshake on a
\* HandshakeFailure(ProtocolVersionMismatch)
Renegotiates(a, ns, frame) ==
    LET parsed == parse_message(a, frame)
        handled == handle_frame(a, ns, frame)
    IN  /\ is_some(parsed.msg)
        /\ a.peer_status.status = "Connecting"
        /\ unwrap(parsed.msg).variant = "HandshakeFailure"
        /\ unwrap(parsed.msg).reason.kind = "ProtocolVersionMismatch"
        /\ \E i \in 1..Len(handled.framed) : IsHandshake(handled.framed[i].msg)

HandleFrame(m) ==
    /\ CanHandle(m)
    /\ stream[m] # <<>>
    /\ IsFrame(Head(stream[m]))
    /\ Commit(m, handle_frame(actors[m], network_state[m], Head(stream[m])), 1)
    /\ renegotiated' =
           IF Renegotiates(actors[m], network_state[m], Head(stream[m]))
           THEN [renegotiated EXCEPT ![m] = @ + 1] ELSE renegotiated
    /\ received_at' =
           LET msg == parse_message(actors[m], Head(stream[m])).msg
           IN  IF is_some(msg) /\ unwrap(msg).variant = "Routed"
               THEN [received_at EXCEPT ![m] =
                        MapPut(@, <<unwrap(msg).author, unwrap(msg).target,
                                    unwrap(msg).signature>>, actors[m].clock)]
               ELSE received_at
    /\ UNCHANGED <<txns_since_last_block, handshake_timed_out>>

\* the peer manager answers RegisterPeer
RegisterPeerResponse(m) ==
    /\ actors[m].ctx = "running"
    /\ is_some(actors[m].wait)
    /\ Commit(m, on_register_peer_response(actors[m], network_state[m],
                     IF network_state[m].pool_accepts THEN "Accept" ELSE "Reject"), 0)
    /\ UNCHANGED <<received_at, txns_since_last_block, handshake_timed_out, renegotiated>>

HandshakeTimeout(m) ==
    /\ CanHandle(m)
    /\ actors[m].handshake_timeout
    /\ Commit(m, on_handshake_timeout(actors[m]), 0)
    /\ handshake_timed_out' =
           IF actors[m].peer_status.status = "Connecting"
           THEN handshake_timed_out \cup {m} ELSE handshake_timed_out
    /\ UNCHANGED <<received_at, txns_since_last_block, renegotiated>>

\* the remote has stopped and dropped the stream: once the frames it wrote are
\* handled, the reader reports RecvError::Closed
StreamClosed(m) ==
    /\ CanHandle(m)
    /\ stream[m] = <<>>
    /\ actors[remote(m)].ctx = "stopped"
    /\ Commit(m, handle_stream_error(actors[m], "Closed"), 0)
    /\ UNCHANGED <<received_at, txns_since_last_block, handshake_timed_out, renegotiated>>

PeerNext ==
    \/ \E m \in Machines : Started(m)
    \/ \E m \in Machines : HandleFrame(m)
    \/ \E m \in Machines : RegisterPeerResponse(m)
    \/ \E m \in Machines : HandshakeTimeout(m)
    \/ \E m \in Machines : StreamClosed(m)

PeerSpec == PeerInit /\ [][PeerNext]_vars

\* the arbiter of an actor runs every handler that stays ready to run, and the
\* peer manager answers; a timeout fires when its time comes, if ever
FairPeerSpec ==
    /\ PeerSpec
    /\ \A m \in Machines :
           /\ WF_vars(Started(m))
           /\ WF_vars(HandleFrame(m))
           /\ WF_vars(RegisterPeerResponse(m))
           /\ WF_vars(StreamClosed(m))

(***************************************************************************)
(* Properties of the handshake.                                            *)
(***************************************************************************)
BothReady == \A m \in Machines : actors[m].peer_status.status = "Ready"

\* both connections hold one edge, of the two nodes, signed by each of them
SameEdge ==
    /\ actors["outbound"].peer_status.conn.edge = actors["inbound"].peer_status.conn.edge
    /\ LET edge == actors["outbound"].peer_status.conn.edge
       IN  /\ {edge.key[1], edge.key[2]} = {network_state[m].node_id : m \in Machines}
           /\ edge.key[1] # edge.key[2]
           /\ Edge_verify(edge)

\* the two sides agree on protocol version, genesis and peer ids; the tier is
\* the one the outbound side asks for
Matching ==
    /\ network_state["outbound"].PROTOCOL_VERSION = network_state["inbound"].PROTOCOL_VERSION
    /\ network_state["outbound"].PEER_MIN_ALLOWED_PROTOCOL_VERSION
           = network_state["inbound"].PEER_MIN_ALLOWED_PROTOCOL_VERSION
    /\ network_state["outbound"].genesis_id = network_state["inbound"].genesis_id
    /\ unwrap(actors["outbound"].handshake_spec).peer_id = network_state["inbound"].node_id
    /\ network_state["outbound"].node_id # network_state["inbound"].node_id

PoolsAccept == \A m \in Machines : network_state[m].pool_accepts

\* no side is forced to an encoding the other side is forced not to parse
EncodingsCompatible ==
    \/ ~is_some(actors["outbound"].force_encoding)
    \/ ~is_some(actors["inbound"].force_encoding)
    \/ actors["outbound"].force_encoding = actors["inbound"].force_encoding

\* the nonces the outbound side proposes to this inbound side: the one of its
\* first handshake and, if the inbound side knows an edge that is not older,
\* the one after that edge
ProposedNonces ==
    LET first == unwrap(actors["outbound"].handshake_spec).partial_edge_info.nonce
        last_edge == get_local_edge(network_state["inbound"], actors["outbound"].my_node_id)
    IN  {first} \cup (IF is_some(last_edge) /\ unwrap(last_edge).nonce >= first
                      THEN {Edge_next(unwrap(last_edge))} ELSE {})

NoncesAreSane == \A n \in ProposedNonces : verify_nonce(network_state["inbound"].clock, n)

\* C10 as stated: when an outbound and an inbound machine with matching
\* protocol version, genesis, tier and peer ids are connected over a reliable
\* stream and each side's pool accepts the registration, both machines
\* eventually reach Ready and hold the same Edge.  The claim is stated for the
\* connections whose two sides can parse each other's frames and whose
\* proposed nonces pass the nonce check of the inbound side.
C10_HandshakeReachesReady ==
    (Matching /\ PoolsAccept /\ EncodingsCompatible /\ NoncesAreSane) =>
        <>(BothReady /\ SameEdge)

\* C10: when an outbound and an inbound machine with matching protocol
\* version, genesis, tier and peer ids are connected over a reliable stream,
\* each side's pool accepts the registration, no side is forced to an encoding
\* the other side is forced not to parse, and the nonces the outbound side
\* proposes pass the nonce check of the inbound side, then both machines
\* eventually reach Ready and hold the same Edge (the two peer ids, one nonce,
\* one partial signature from each side), unless the handshake timeout of a
\* machine fires while that machine is still Connecting and halts it.
C10_HandshakeReachesReadyUnlessTimedOut ==
    (Matching /\ PoolsAccept /\ EncodingsCompatible /\ NoncesAreSane) =>
        <>((BothReady /\ SameEdge) \/ handshake_timed_out # {})

\* both machines are ready with the edge of a nonce the outbound side proposed
\* on the evidence of the inbound side's edge
C10_Witness ==
    /\ Matching /\ PoolsAccept /\ EncodingsCompatible /\ NoncesAreSane
    /\ BothReady /\ SameEdge
    /\ handshake_timed_out = {}
    /\ is_some(get_local_edge(network_state["inbound"], 1))
    /\ actors["inbound"].peer_status.conn.edge.nonce
           > unwrap(get_local_edge(network_state["inbound"], 1)).nonce

(***************************************************************************)
(* One machine and a hostile remote.  The machine is any of the two, on    *)
(* any of the nodes above; its remote writes what it likes to the stream:  *)
(* handshakes that differ from the one an honest peer would send in up to  *)
(* MaxFaults fields, handshake failures, edges, and whatever makes the     *)
(* reader or the writer of the stream fail.  The reader task of the actor  *)
(* (spawn) hands over one frame and awaits its handler before it reads the *)
(* next, and hands over the error that ends it.  The peer manager may ask  *)
(* the actor to ban or to unregister the peer.  stream[remote(m)] keeps    *)
(* the frames the machine has written.                                     *)
(***************************************************************************)
MaxHostileItems == 2

MaxFaults == 2

MaxTimedItems == 1

\* a node that is none of the two
Stranger == 3

Handshake(protocol_version, genesis_id, sender_peer_id, target_peer_id, partial_edge_info) ==
    [protocol_version |-> protocol_version,
     oldest_supported_version |-> 55,
     sender_peer_id |-> sender_peer_id,
     target_peer_id |-> target_peer_id,
     genesis_id |-> genesis_id,
     partial_edge_info |-> partial_edge_info]

\* the id of the node machine m runs on, and of the node it is connected to
NodeId(m) == IF m = "outbound" THEN 1 ELSE 2

HostileVersions == {54, 58, 60}

HostileNonces == {7, 9}

\* the fields of a handshake an honest peer would not send to machine m
Faults(m, version, genesis_id, sender, target, signer, tier) ==
    LET bit(b) == IF b THEN 1 ELSE 0
    IN  bit(version \notin (IF m = "outbound" THEN {58, 60} ELSE {58}))
        + bit(genesis_id # "genesis")
        + bit(sender # NodeId(remote(m)))
        + bit(target # NodeId(m))
        + bit(signer # sender)
        + bit(tier # (IF m = "outbound" THEN unwrap(actors[m].handshake_spec).tier ELSE "T2"))

HostileHandshakes(m, max_faults) ==
    {HandshakeMessage(tier,
         Handshake(version, genesis_id, sender, target,
                   PartialEdgeInfo_new(sender, NodeId(m), nonce, signer))) :
        <<version, genesis_id, sender, target, nonce, signer, tier>> \in
            {f \in HostileVersions \X {"genesis", "other"} \X {NodeId(remote(m)), NodeId(m)}
                   \X (IF m = "outbound" THEN {NodeId(m)} ELSE {NodeId(m), Stranger})
                   \X HostileNonces \X {NodeId(remote(m)), NodeId(m), Stranger} \X Tiers :
                /\ f[6] \in {f[3], Stranger}
                /\ Faults(m, f[1], f[2], f[3], f[4], f[6], f[7]) <= max_faults}}

HostileFailures(m) ==
    {HandshakeFailure(NodeId(remote(m)), reason) :
        reason \in {[kind |-> "GenesisMismatch", genesis |-> "other"],
                    [kind |-> "InvalidTarget"]}
                   \cup {[kind |-> "ProtocolVersionMismatch", version |-> v,
                          oldest_supported_version |-> o] : v \in {54, 58, 62}, o \in {55, 59}}}

\* edges of the two nodes: signed by both, with an odd and with an even nonce,
\* and one the remote node has not signed
HostileEdges ==
    {SignedEdge(1, 2, 7), SignedEdge(1, 2, 8),
     Edge_new(1, 2, 7, Signature(1, 1, 2, 7), Signature(Stranger, 1, 2, 7))}

StreamErrors == {"Closed", "MessageTooLarge", "QueueOverflow", "IO"}

HostileItems(m) ==
    LET few == HostileHandshakes(m, 0) \cup HostileFailures(m)
                   \cup {LastEdge(edge) : edge \in HostileEdges}
                   \cup {SyncAccountsData(TRUE)}
    IN  {serialize(msg, "Proto") : msg \in HostileHandshakes(m, MaxFaults) \cup few}
            \cup {serialize(msg, "Borsh") : msg \in few}
            \cup {[error |-> err] : err \in StreamErrors}

PeerManagerRequests ==
    {[request |-> "BanPeer", ban_reason |-> r] : r \in {"Abusive", "BadBlock"}}
        \cup {[request |-> "UnregisterPeer"]}

\* PeerActor::spawn once peer_addr is resolved and the guard exists: without a
\* handshake permit it returns the error, and the guard is dropped
spawn_with_permit(a, permit) ==
    IF permit THEN [a EXCEPT !.ctx = "created"]
    ELSE drop_connection_guard([a EXCEPT !.ctx = "failed"])

\* Handler<PeerManagerRequestWithContext>::handle
handle_peer_manager_request(a, msg) ==
    IF msg.request = "BanPeer" THEN ban_peer(a, msg.ban_reason) ELSE ctx_stop(a)

HostileInitWith(items) ==
    /\ CacheInit
    /\ \E m \in Machines :
           /\ network_state \in [{m} -> IF m = "outbound" THEN OutboundNodes ELSE InboundNodes]
           /\ \E tier \in Tiers, force_encoding \in ForceEncodings :
                  actors = [n \in {m} |->
                               [spawn(IF m = "outbound"
                                      THEN Outbound(NodeId(remote(m)), tier) ELSE Inbound,
                                      force_encoding, network_state[m])
                                   EXCEPT !.ctx = "spawning"]]
           /\ peer_manager = [n \in {m} |-> <<>>]
           /\ event_sink = [n \in {m} |-> <<>>]
           /\ dispatched = [n \in {m} |-> <<>>]
           /\ received_at = [n \in {m} |-> EmptyMap]
           /\ inbound_handshake_permits \in
                  IF m = "outbound" THEN {MaxInboundHandshakePermits}
                  ELSE {0, MaxInboundHandshakePermits}
           /\ renegotiated = [n \in {m} |-> 0]
           /\ txns_since_last_block = 0
    /\ stream = [n \in Machines |-> <<>>]
    /\ hostile = items
    /\ handshake_timed_out = {}

HostileInit == HostileInitWith(MaxHostileItems)

\* a semaphore that never runs out of permits
try_acquire_unbounded(a) == IF a.peer_type = "Inbound" THEN {TRUE} ELSE BOOLEAN

\* whether spawn gets its handshake permit: an inbound connection gets one of
\* inbound_handshake_permits while the semaphore has permits left
\* (try_acquire_owned), an outbound connection gets one unless the pool of its
\* tier has the peer already (start_outbound)
try_acquire(a) ==
    IF a.peer_type = "Inbound" THEN {inbound_handshake_permits > 0} ELSE BOOLEAN

Spawn(m) ==
    /\ actors[m].ctx = "spawning"
    /\ \E permit \in try_acquire(actors[m]) :
           Commit(m, spawn_with_permit(actors[m], permit), 0)
    /\ UNCHANGED <<received_at, txns_since_last_block, handshake_timed_out, renegotiated>>

\* the remote writes a frame, or the stream fails: the reader task delivers it
\* when the actor has handled what it delivered before
HostileSends(m) ==
    /\ hostile > 0
    /\ actors[m].ctx \in {"created", "running"}
    /\ stream[m] = <<>>
    /\ \E item \in HostileItems(m) : stream' = [stream EXCEPT ![m] = <<item>>]
    /\ hostile' = hostile - 1
    /\ UNCHANGED <<actors, peer_manager, network_state, event_sink, dispatched,
                   received_at, inbound_handshake_permits, txns_since_last_block,
                   handshake_timed_out, renegotiated, cache_vars>>

HandleStreamError(m) ==
    /\ CanHandle(m)
    /\ stream[m] # <<>>
    /\ ~IsFrame(Head(stream[m]))
    /\ Commit(m, handle_stream_error(actors[m], Head(stream[m]).error), 1)
    /\ UNCHANGED <<received_at, txns_since_last_block, handshake_timed_out, renegotiated>>

PeerManagerRequest(m) ==
    /\ CanHandle(m)
    /\ \E msg \in PeerManagerRequests :
           Commit(m, handle_peer_manager_request(actors[m], msg), 0)
    /\ UNCHANGED <<received_at, txns_since_last_block, handshake_timed_out, renegotiated>>

HostileNext ==
    \/ \E m \in DOMAIN actors : Spawn(m)
    \/ \E m \in DOMAIN actors : Started(m)
    \/ \E m \in DOMAIN actors : HostileSends(m)
    \/ \E m \in DOMAIN actors : HandleFrame(m)
    \/ \E m \in DOMAIN actors : HandleStreamError(m)
    \/ \E m \in DOMAIN actors : RegisterPeerResponse(m)
    \/ \E m \in DOMAIN actors : HandshakeTimeout(m)
    \/ \E m \in DOMAIN actors : PeerManagerRequest(m)

HostileSpec == HostileInit /\ [][HostileNext]_vars

\* the peer manager answers RegisterPeer, and the timer started() arms fires
\* when its time has come (one machine runs: the fairness is the machine's);
\* the remote writes up to MaxTimedItems items
FairHostileSpec ==
    /\ HostileInitWith(MaxTimedItems)
    /\ [][HostileNext]_vars
    /\ WF_vars(\E m \in DOMAIN actors : RegisterPeerResponse(m))
    /\ WF_vars(\E m \in DOMAIN actors : HandshakeTimeout(m))

\* the machines of the specification that runs
Running == DOMAIN actors

(***************************************************************************)
(* Steps of a machine, as properties of a step read them.                  *)
(***************************************************************************)
\* this step, machine m handles the frame at the head of its stream
HandlesFrame(m) ==
    /\ CanHandle(m)
    /\ stream[m] # <<>>
    /\ IsFrame(Head(stream[m]))
    /\ stream'[m] = Tail(stream[m])

\* the message the frame parses to, if it parses
Received(m) == parse_message(actors[m], Head(stream[m])).msg

\* this step, machine m handles message variant `variant` while Connecting
HandlesConnecting(m, variants) ==
    /\ HandlesFrame(m)
    /\ actors[m].peer_status.status = "Connecting"
    /\ is_some(Received(m))
    /\ unwrap(Received(m)).variant \in variants

\* the messages machine m writes to the stream this step
Written(m) ==
    LET frames == SubSeq(stream'[remote(m)], Len(stream[remote(m)]) + 1,
                         Len(stream'[remote(m)]))
    IN  [i \in 1..Len(frames) |-> frames[i].msg]

\* the messages machine m sends to the peer manager this step
SentToPeerManager(m) ==
    SubSeq(peer_manager'[m], Len(peer_manager[m]) + 1, Len(peer_manager'[m]))

Range(seq) == {seq[i] : i \in 1..Len(seq)}

\* this step the machine halts: it has stopped and writes nothing
Halts(m) == actors'[m].ctx = "stopped" /\ Written(m) = <<>>

\* this step the machine stays Connecting, without a request for registration
StaysConnecting(m) ==
    /\ actors'[m].ctx = "running"
    /\ actors'[m].peer_status = Connecting
    /\ ~is_some(actors'[m].wait)
    /\ \A msg \in Range(SentToPeerManager(m)) : msg.msg # "RegisterPeer"

Min(x, y) == IF x <= y THEN x ELSE y

\* C11: on HandshakeFailure in Connecting an inbound machine halts; an
\* outbound machine halts on GenesisMismatch and on InvalidTarget (having
\* forwarded the peer info to the peer manager); on
\* ProtocolVersionMismatch{version, oldest} it takes
\* c = min(version, PROTOCOL_VERSION) and, if c >= oldest and
\* c >= PEER_MIN_ALLOWED_PROTOCOL_VERSION, re-sends its handshake with
\* protocol_version = c and stays Connecting, and halts otherwise.
C11_HandshakeFailureInConnecting ==
    [][\A m \in DOMAIN actors :
          HandlesConnecting(m, {"HandshakeFailure"}) =>
              LET msg == unwrap(Received(m))
                  ns == network_state[m]
                  spec == unwrap(actors[m].handshake_spec)
                  c == Min(msg.reason.version, ns.PROTOCOL_VERSION)
              IN  IF actors[m].peer_type = "Inbound" THEN Halts(m)
                  ELSE IF msg.reason.kind = "GenesisMismatch" THEN Halts(m)
                  ELSE IF msg.reason.kind = "InvalidTarget"
                  THEN /\ Halts(m)
                       /\ SentToPeerManager(m) # <<>>
                       /\ Head(SentToPeerManager(m)) =
                              [msg |-> "UpdatePeerInfo", peer_info |-> msg.peer_info]
                  ELSE IF /\ c >= msg.reason.oldest_supported_version
                          /\ c >= ns.PEER_MIN_ALLOWED_PROTOCOL_VERSION
                  THEN /\ StaysConnecting(m)
                       /\ Written(m) # <<>>
                       /\ \A sent \in Range(Written(m)) :
                              sent = HandshakeMessage(spec.tier,
                                         Handshake(c, spec.genesis_id, ns.node_id,
                                                   spec.peer_id, spec.partial_edge_info))
                  ELSE Halts(m)]_vars

\* an outbound machine has re-sent its handshake with the version of the
\* remote, lower than its own, and is still Connecting
C11_Witness ==
    \E m \in DOMAIN actors :
        /\ actors[m].peer_type = "Outbound"
        /\ renegotiated[m] = 1
        /\ actors[m].ctx = "running"
        /\ actors[m].peer_status = Connecting
        /\ unwrap(actors[m].handshake_spec).protocol_version = 58
        /\ network_state[m].PROTOCOL_VERSION = 60
        /\ \E i \in 1..Len(stream[remote(m)]) :
               /\ IsHandshake(stream[remote(m)][i].msg)
               /\ stream[remote(m)][i].msg.handshake.protocol_version = 58

\* C12: protocol-version renegotiation happens once: over the life of one
\* connection an outbound machine re-sends its handshake in response to
\* ProtocolVersionMismatch at most one time, whatever HandshakeFailure
\* messages the remote sends.
C12_RenegotiatesAtMostOnce == \A m \in DOMAIN actors : renegotiated[m] <= 1

\* the handshake passes the version, genesis and target checks of an inbound
\* machine on node ns
PassesVersionGenesisTarget(ns, handshake) ==
    /\ ns.PEER_MIN_ALLOWED_PROTOCOL_VERSION <= handshake.protocol_version
    /\ handshake.protocol_version <= ns.PROTOCOL_VERSION
    /\ handshake.genesis_id = ns.genesis_id
    /\ handshake.target_peer_id = ns.node_id

\* the node holds a local edge for the sender that is not older than the handshake
HoldsNewerEdge(ns, handshake) ==
    /\ is_some(get_local_edge(ns, handshake.sender_peer_id))
    /\ unwrap(get_local_edge(ns, handshake.sender_peer_id)).nonce
           >= handshake.partial_edge_info.nonce

\* C13: an inbound machine that passes the version, genesis, target and
\* nonce-sanity checks and holds a local edge for the sender with
\* nonce >= the handshake nonce replies LastEdge(local_edge), stays Connecting
\* and registers no Connection; hence an inbound machine is Ready only with an
\* edge whose nonce is strictly greater than the nonce of the local edge of
\* its node for that peer.
C13_StaleNonceIsAnsweredWithLastEdge ==
    /\ [][\A m \in DOMAIN actors :
              (/\ actors[m].peer_type = "Inbound"
               /\ HandlesConnecting(m, {"Tier1Handshake", "Tier2Handshake"})
               /\ PassesVersionGenesisTarget(network_state[m],
                                             unwrap(Received(m)).handshake)
               /\ verify_nonce(network_state[m].clock,
                               unwrap(Received(m)).handshake.partial_edge_info.nonce)
               /\ HoldsNewerEdge(network_state[m], unwrap(Received(m)).handshake))
              => /\ Written(m) # <<>>
                 /\ Range(Written(m)) =
                        {LastEdge(unwrap(get_local_edge(network_state[m],
                             unwrap(Received(m)).handshake.sender_peer_id)))}
                 /\ StaysConnecting(m)]_vars
    /\ [](\A m \in DOMAIN actors :
              (/\ actors[m].peer_type = "Inbound"
               /\ actors[m].peer_status.status = "Ready"
               /\ is_some(get_local_edge(network_state[m],
                                         actors[m].peer_status.conn.peer_info)))
              => actors[m].peer_status.conn.edge.nonce
                     > unwrap(get_local_edge(network_state[m],
                                  actors[m].peer_status.conn.peer_info)).nonce)

\* an inbound machine has answered a stale handshake with the edge of its node
\* and is Ready with a later edge
C13_Witness ==
    \E m \in DOMAIN actors :
        /\ actors[m].peer_type = "Inbound"
        /\ actors[m].peer_status.status = "Ready"
        /\ is_some(get_local_edge(network_state[m], 1))
        /\ \E i \in 1..Len(stream[remote(m)]) :
               stream[remote(m)][i].msg = LastEdge(unwrap(get_local_edge(network_state[m], 1)))
        /\ actors[m].peer_status.conn.edge.nonce = 9

\* C14: on LastEdge(edge) received in Connecting an inbound machine halts; an
\* outbound machine halts if edge.verify() fails, and otherwise replaces its
\* proposed partial edge by one with nonce edge.next(), strictly greater than
\* edge.nonce(), re-sends the handshake with that nonce and stays Connecting;
\* it afterwards accepts only a handshake carrying exactly the nonce it
\* proposes.
C14_LastEdgeInConnecting ==
    /\ [][\A m \in DOMAIN actors :
              HandlesConnecting(m, {"LastEdge"}) =>
                  LET edge == unwrap(Received(m)).edge
                      spec == unwrap(actors[m].handshake_spec)
                      new_spec == unwrap(actors'[m].handshake_spec)
                  IN  IF actors[m].peer_type = "Inbound" THEN Halts(m)
                      ELSE IF ~Edge_verify(edge) THEN Halts(m)
                      ELSE /\ StaysConnecting(m)
                           /\ new_spec = [spec EXCEPT !.partial_edge_info =
                                  PartialEdgeInfo_new(network_state[m].node_id, spec.peer_id,
                                                      Edge_next(edge), network_state[m].node_id)]
                           /\ new_spec.partial_edge_info.nonce > edge.nonce
                           /\ Written(m) # <<>>
                           /\ \A sent \in Range(Written(m)) :
                                  sent = HandshakeMessage(new_spec.tier,
                                             Handshake(new_spec.protocol_version,
                                                       new_spec.genesis_id,
                                                       network_state[m].node_id,
                                                       new_spec.peer_id,
                                                       new_spec.partial_edge_info))]_vars
    /\ [](\A m \in DOMAIN actors :
              actors[m].peer_type = "Outbound" =>
                  LET nonce == unwrap(actors[m].handshake_spec).partial_edge_info.nonce
                  IN  /\ is_some(actors[m].wait) =>
                             unwrap(actors[m].wait).conn.edge.nonce = nonce
                      /\ actors[m].peer_status.status = "Ready" =>
                             actors[m].peer_status.conn.edge.nonce = nonce)

\* an outbound machine that proposed nonce 1 or 7 is Ready with nonce 9, the
\* one after the edge the remote has sent
C14_Witness ==
    \E m \in DOMAIN actors :
        /\ actors[m].peer_type = "Outbound"
        /\ actors[m].peer_status.status = "Ready"
        /\ unwrap(actors[m].handshake_spec).partial_edge_info.nonce = 9
        /\ actors[m].peer_status.conn.edge.nonce = 9
        /\ Edge_verify(actors[m].peer_status.conn.edge)

\* the reply of a machine to a handshake it rejects
Rejects(m, reason) ==
    /\ StaysConnecting(m)
    /\ Written(m) # <<>>
    /\ Range(Written(m)) = {HandshakeFailure(network_state[m].node_id, reason)}

\* C15: an inbound machine checks a received handshake in the order version,
\* genesis, target, nonce sanity, stale nonce, self-connection, partial
\* signature, and reacts to the first failing check only: a version outside
\* [PEER_MIN_ALLOWED_PROTOCOL_VERSION, PROTOCOL_VERSION] is answered with
\* HandshakeFailure(ProtocolVersionMismatch{PROTOCOL_VERSION,
\* PEER_MIN_ALLOWED_PROTOCOL_VERSION}), a different genesis with
\* HandshakeFailure(GenesisMismatch(own genesis)), a target_peer_id that is
\* not the own id with HandshakeFailure(InvalidTarget), and in each of these
\* cases no Connection is registered and the machine does not become Ready; a
\* handshake whose sender_peer_id is the own id never leads to Ready.
C15_InboundChecksInOrder ==
    /\ [][\A m \in DOMAIN actors :
              (/\ actors[m].peer_type = "Inbound"
               /\ HandlesConnecting(m, {"Tier1Handshake", "Tier2Handshake"}))
              => LET ns == network_state[m]
                     handshake == unwrap(Received(m)).handshake
                 IN  IF \/ handshake.protocol_version < ns.PEER_MIN_ALLOWED_PROTOCOL_VERSION
                        \/ handshake.protocol_version > ns.PROTOCOL_VERSION
                     THEN Rejects(m, [kind |-> "ProtocolVersionMismatch",
                                      version |-> ns.PROTOCOL_VERSION,
                                      oldest_supported_version |->
                                          ns.PEER_MIN_ALLOWED_PROTOCOL_VERSION])
                     ELSE IF handshake.genesis_id # ns.genesis_id
                     THEN Rejects(m, [kind |-> "GenesisMismatch", genesis |-> ns.genesis_id])
                     ELSE IF handshake.target_peer_id # ns.node_id
                     THEN Rejects(m, [kind |-> "InvalidTarget"])
                     ELSE IF ~verify_nonce(ns.clock, handshake.partial_edge_info.nonce)
                     THEN Halts(m) /\ actors'[m].peer_status = Connecting
                     ELSE IF HoldsNewerEdge(ns, handshake)
                     THEN /\ StaysConnecting(m)
                          /\ \A sent \in Range(Written(m)) : sent.variant = "LastEdge"
                     ELSE IF handshake.sender_peer_id = ns.node_id
                     THEN Halts(m) /\ actors'[m].peer_status = Connecting
                     ELSE IF ~Edge_partial_verify(ns.node_id, handshake.sender_peer_id,
                                                  handshake.partial_edge_info)
                     THEN Halts(m) /\ actors'[m].peer_status = Banned("InvalidSignature")
                     ELSE /\ is_some(actors'[m].wait)
                          /\ Written(m) = <<>>
                          /\ \E msg \in Range(SentToPeerManager(m)) :
                                 msg.msg = "RegisterPeer"]_vars
    /\ [](\A m \in DOMAIN actors :
              actors[m].peer_type = "Inbound" =>
                  /\ is_some(actors[m].wait) =>
                         unwrap(actors[m].wait).conn.peer_info # network_state[m].node_id
                  /\ actors[m].peer_status.status = "Ready" =>
                         actors[m].peer_status.conn.peer_info # network_state[m].node_id)

\* an inbound machine has rejected two handshakes, one for its version and one
\* for its target, and is still Connecting
C15_Witness ==
    \E m \in DOMAIN actors :
        /\ actors[m].peer_type = "Inbound"
        /\ actors[m].ctx = "running"
        /\ actors[m].peer_status = Connecting
        /\ \E i, j \in 1..Len(stream[remote(m)]) :
               /\ stream[remote(m)][i].msg.variant = "HandshakeFailure"
               /\ stream[remote(m)][i].msg.reason.kind = "ProtocolVersionMismatch"
               /\ stream[remote(m)][j].msg.variant = "HandshakeFailure"
               /\ stream[remote(m)][j].msg.reason.kind = "InvalidTarget"

\* the handshake is the one the outbound machine expects: its protocol
\* version, genesis, sender, tier and nonce are those of handshake_spec
MatchesSpec(spec, tier, handshake) ==
    /\ handshake.protocol_version = spec.protocol_version
    /\ handshake.genesis_id = spec.genesis_id
    /\ handshake.sender_peer_id = spec.peer_id
    /\ tier = spec.tier
    /\ handshake.partial_edge_info.nonce = spec.partial_edge_info.nonce

TierOf(msg) == IF msg.variant = "Tier1Handshake" THEN "T1" ELSE "T2"

\* C16: an outbound machine becomes Ready only if the received handshake's
\* protocol_version, genesis_id, sender_peer_id, tier and partial-edge nonce
\* all equal those of its current handshake_spec; on any mismatch it halts
\* without registering a Connection.
C16_OutboundAcceptsTheExpectedHandshakeOnly ==
    /\ [][\A m \in DOMAIN actors :
              (/\ actors[m].peer_type = "Outbound"
               /\ HandlesConnecting(m, {"Tier1Handshake", "Tier2Handshake"}))
              => LET spec == unwrap(actors[m].handshake_spec)
                     msg == unwrap(Received(m))
                 IN  IF MatchesSpec(spec, TierOf(msg), msg.handshake)
                     THEN is_some(actors'[m].wait) =>
                              /\ unwrap(actors'[m].wait).handshake = msg.handshake
                              /\ unwrap(actors'[m].wait).tier = TierOf(msg)
                     ELSE /\ Halts(m)
                          /\ actors'[m].peer_status = Connecting
                          /\ ~is_some(actors'[m].wait)
                          /\ \A sent \in Range(SentToPeerManager(m)) :
                                 sent.msg # "RegisterPeer"]_vars
    /\ [][\A m \in DOMAIN actors :
              (/\ actors[m].peer_type = "Outbound"
               /\ actors[m].peer_status.status # "Ready"
               /\ actors'[m].peer_status.status = "Ready")
              => /\ is_some(actors[m].wait)
                 /\ MatchesSpec(unwrap(actors[m].handshake_spec),
                                unwrap(actors[m].wait).tier,
                                unwrap(actors[m].wait).handshake)
                 /\ actors'[m].peer_status.conn = unwrap(actors[m].wait).conn
                 /\ actors'[m].peer_status.conn.tier = unwrap(actors[m].handshake_spec).tier
                 /\ actors'[m].peer_status.conn.peer_info
                        = unwrap(actors[m].handshake_spec).peer_id
                 /\ actors'[m].peer_status.conn.edge.nonce
                        = unwrap(actors[m].handshake_spec).partial_edge_info.nonce]_vars

\* an outbound machine that lowered its version to 58 is Ready on a handshake
\* of that version
C16_Witness ==
    \E m \in DOMAIN actors :
        /\ actors[m].peer_type = "Outbound"
        /\ actors[m].peer_status.status = "Ready"
        /\ network_state[m].PROTOCOL_VERSION = 60
        /\ unwrap(actors[m].handshake_spec).protocol_version = 58
        /\ actors[m].peer_status.conn.peer_info = unwrap(actors[m].handshake_spec).peer_id

\* the Ban messages machine m has sent to the peer manager
BansSent(m) == {i \in 1..Len(peer_manager[m]) : peer_manager[m][i].msg = "Ban"}

\* C17: whenever a machine bans its peer (ban_peer sets the status
\* Banned(reason), from any prior status, on inbound and outbound connections
\* alike, including a ban for an invalid partial signature during the
\* handshake), the machine halts and during teardown the peer manager is sent
\* exactly one Ban{peer_id, reason} message.
C17_BanIsReportedOnce ==
    \A m \in DOMAIN actors :
        actors[m].peer_status.status = "Banned" =>
            /\ actors[m].ctx = "stopped"
            /\ Cardinality(BansSent(m)) = 1
            /\ \A i \in BansSent(m) :
                   peer_manager[m][i].ban_reason = actors[m].peer_status.ban_reason

\* every machine that banned its peer has halted
C17_BannedMachinesHalt ==
    \A m \in DOMAIN actors :
        actors[m].peer_status.status = "Banned" => actors[m].ctx = "stopped"

\* a machine that knows the id of its peer reports its ban once
C17_BanOfKnownPeerIsReportedOnce ==
    \A m \in DOMAIN actors :
        (actors[m].peer_status.status = "Banned" /\ is_some(actors[m].peer_info)) =>
            /\ Cardinality(BansSent(m)) = 1
            /\ \A i \in BansSent(m) :
                   peer_manager[m][i] = [msg |-> "Ban", peer_id |-> unwrap(actors[m].peer_info),
                                         ban_reason |-> actors[m].peer_status.ban_reason]

\* an inbound machine has banned its peer for the signature of its handshake
\* and has halted without a Ban message
C17_UnreportedBan ==
    \E m \in DOMAIN actors :
        /\ actors[m].peer_type = "Inbound"
        /\ actors[m].peer_status = Banned("InvalidSignature")
        /\ actors[m].ctx = "stopped"
        /\ peer_manager[m] = <<>>

\* this step, machine m handles the stream error at the head of its stream
HandlesStreamError(m) ==
    /\ CanHandle(m)
    /\ stream[m] # <<>>
    /\ ~IsFrame(Head(stream[m]))
    /\ stream'[m] = Tail(stream[m])

\* C18: on any stream error the machine halts; its status becomes
\* Banned(Abusive) if and only if the error is Recv(MessageTooLarge); for
\* Closed, QueueOverflow and every IO error the machine halts without the
\* status being changed to Banned.
C18_StreamErrorHalts ==
    [][\A m \in DOMAIN actors :
           HandlesStreamError(m) =>
               /\ actors'[m].ctx = "stopped"
               /\ actors'[m].peer_status = Banned("Abusive")
                      <=> Head(stream[m]).error = "MessageTooLarge"
               /\ Head(stream[m]).error # "MessageTooLarge" =>
                      actors'[m].peer_status = actors[m].peer_status]_vars

\* a Ready machine was sent a message that is too large: it has halted,
\* Banned(Abusive), and its connection is closed
C18_Witness ==
    \E m \in DOMAIN actors :
        /\ actors[m].peer_status = Banned("Abusive")
        /\ actors[m].ctx = "stopped"
        /\ stream[m] = <<>>
        /\ hostile = 0
        /\ \E i \in 1..Len(peer_manager[m]) : peer_manager[m][i].msg = "RegisterPeer"
        /\ \E i \in 1..Len(peer_manager[m]) :
               peer_manager[m][i].msg = "Ban" /\ peer_manager[m][i].ban_reason = "Abusive"
        /\ event_sink[m] = <<"PeerActorStarted", "ConnectionClosed">>

\* the positions of an event in the sink of machine m
Emitted(m, event) == {i \in 1..Len(event_sink[m]) : event_sink[m][i] = event}

\* C19: for every connection whose peer address was resolved by
\* PeerActor::spawn, exactly one ConnectionClosed event is emitted over its
\* lifetime, whether spawn fails at permit acquisition or the machine halts
\* while Connecting, Ready or Banned: none while the connection lives, one
\* once it has ended; when PeerActorStarted is emitted, it precedes
\* ConnectionClosed.
C19_ConnectionClosedIsEmittedOnce ==
    \A m \in DOMAIN actors :
        /\ Cardinality(Emitted(m, "ConnectionClosed")) =
               (IF actors[m].ctx \in {"failed", "stopped"} THEN 1 ELSE 0)
        /\ actors[m].ctx \in {"spawning", "created", "running", "failed", "stopped"}
        /\ Cardinality(Emitted(m, "PeerActorStarted")) =
               (IF actors[m].ctx \in {"running", "stopped"} THEN 1 ELSE 0)
        /\ \A i \in Emitted(m, "PeerActorStarted"), j \in Emitted(m, "ConnectionClosed") : i < j

\* a machine has halted while Ready: its connection was started and was closed
C19_Witness ==
    \E m \in DOMAIN actors :
        /\ actors[m].ctx = "stopped"
        /\ actors[m].peer_status.status = "Ready"
        /\ event_sink[m] = <<"PeerActorStarted", "ConnectionClosed">>

\* spawn has failed for want of a permit: the connection was closed, and never started
C19_SpawnFailed ==
    \E m \in DOMAIN actors :
        /\ actors[m].ctx = "failed"
        /\ event_sink[m] = <<"ConnectionClosed">>

\* this step, the handshake timeout of machine m fires
HandshakeTimeoutFires(m) ==
    actors[m].handshake_timeout /\ ~actors'[m].handshake_timeout

\* C20: when the handshake timeout fires, the machine halts if and only if it
\* is still Connecting; a machine that is Ready is not affected by the
\* timeout.  Consequently, as the peer manager eventually answers
\* RegisterPeer, no started machine stays in Connecting forever: it
\* eventually becomes Ready or terminates.
C20_HandshakeTimeout ==
    /\ [][\A m \in DOMAIN actors :
              HandshakeTimeoutFires(m) =>
                  IF actors[m].peer_status.status = "Connecting"
                  THEN actors'[m].ctx = "stopped"
                  ELSE /\ actors[m].peer_status.status = "Ready"
                       /\ actors'[m] = [actors[m] EXCEPT !.handshake_timeout = FALSE]
                       /\ peer_manager'[m] = peer_manager[m]
                       /\ event_sink'[m] = event_sink[m]]_vars
    /\ (\E m \in DOMAIN actors : actors[m].ctx = "running")
           ~> (\A m \in DOMAIN actors :
                   \/ actors[m].peer_status.status = "Ready"
                   \/ actors[m].ctx = "stopped")

\* the timeout of a Ready machine has fired, and the machine runs on
C20_Witness ==
    \E m \in DOMAIN actors :
        /\ actors[m].ctx = "running"
        /\ actors[m].peer_status.status = "Ready"
        /\ ~actors[m].handshake_timeout
        /\ handshake_timed_out = {}

\* the timeout has halted a machine that was still Connecting
C20_TimedOut ==
    \E m \in DOMAIN actors :
        /\ m \in handshake_timed_out
        /\ actors[m].ctx = "stopped"
        /\ actors[m].peer_status = Connecting
(***************************************************************************)
(* A ready connection.  ReadySpec and RoutedSpec start where a handshake   *)
(* has left an inbound PeerActor: started, a handshake of the remote node  *)
(* handled, the registration accepted and the handshake timeout over.      *)
(* Other connections of the node have forwarded                            *)
(* MAX_TRANSACTIONS_PER_BLOCK_MESSAGE transactions since the last block,   *)
(* and routed messages of keys that do not come again have left the cache  *)
(* one entry short of full.  The client, the view client and the peer      *)
(* manager answer what the actor has asked them.                           *)
(* In ReadySpec the remote writes up to MaxReadyItems frames of every      *)
(* variant, all within the same millisecond.  In RoutedSpec it writes up   *)
(* to MaxRoutedItems routed messages and blocks, and the clock of the      *)
(* actor advances by ClockStep ms between them, up to MaxTicks times.      *)
(***************************************************************************)
MaxReadyItems == 2

MaxRoutedItems == 3

MaxTicks == 3

ClockStep == 25

\* closures that report every message the client has answered
on_spawned_reporting_every_answer(a, fut, res) ==
    CASE fut.awaits = "client" ->
             IF res.kind = "Ban" THEN ban_peer(a, res.ban_reason)
             ELSE push_event(a, "MessageProcessed")
      [] fut.awaits = "view_client" ->
             IF res.kind = "TxStatus"
             THEN dispatch(a, "peer",
                      [kind |-> "Routed",
                       msg |-> [target |-> unwrap(fut.msg_hash),
                                body |-> [kind |-> "TxStatusResponse", id |-> res.tx_result]],
                       tier |-> fut.tier])
             ELSE IF res.kind = "Block"
             THEN send_message(a, [variant |-> "Block", block |-> res.block])
             ELSE a
      [] fut.awaits = "PeersRequest" ->
             IF res.kind = "Peers" /\ res.peers # {}
             THEN send_message(a, [variant |-> "PeersResponse", peers |-> res.peers])
             ELSE a
      [] fut.awaits = "RequestUpdateNonce" ->
             IF res.kind = "EdgeUpdate"
             THEN send_message(a, [variant |-> "ResponseUpdateNonce", edge |-> res.edge])
             ELSE IF res.kind = "BanPeer" THEN ban_peer(a, res.ban_reason)
             ELSE a
      [] fut.awaits = "ResponseUpdateNonce" ->
             IF res.kind = "BanPeer" THEN ban_peer(a, res.ban_reason) ELSE a

\* the closures the actor passes to ctx.spawn, run on what the future resolves to
on_spawned(a, fut, res) ==
    CASE fut.awaits = "client" ->
             IF res.kind = "InvalidTx" THEN a
             ELSE IF res.kind = "Ban" THEN ban_peer(a, res.ban_reason)
             ELSE IF res.kind = "MailboxError" THEN a
             ELSE push_event(a, "MessageProcessed")
      [] fut.awaits = "view_client" ->
             IF res.kind = "TxStatus"
             THEN dispatch(a, "peer",
                      [kind |-> "Routed",
                       msg |-> [target |-> unwrap(fut.msg_hash),
                                body |-> [kind |-> "TxStatusResponse", id |-> res.tx_result]],
                       tier |-> fut.tier])
             ELSE IF res.kind = "Block"
             THEN send_message(a, [variant |-> "Block", block |-> res.block])
             ELSE a
      [] fut.awaits = "PeersRequest" ->
             IF res.kind = "Peers" /\ res.peers # {}
             THEN send_message(a, [variant |-> "PeersResponse", peers |-> res.peers])
             ELSE a
      [] fut.awaits = "RequestUpdateNonce" ->
             IF res.kind = "EdgeUpdate"
             THEN send_message(a, [variant |-> "ResponseUpdateNonce", edge |-> res.edge])
             ELSE IF res.kind = "BanPeer" THEN ban_peer(a, res.ban_reason)
             ELSE a
      [] fut.awaits = "ResponseUpdateNonce" ->
             IF res.kind = "BanPeer" THEN ban_peer(a, res.ban_reason) ELSE a

\* what the client, the view client and the peer manager answer; the
\* request to the client may also fail with a MailboxError
Responses(fut) ==
    CASE fut.awaits = "client" ->
             {[kind |-> "NoResponse"], [kind |-> "InvalidTx"],
              [kind |-> "Ban", ban_reason |-> "BadBlock"], [kind |-> "MailboxError"]}
      [] fut.awaits = "view_client" ->
             IF is_some(fut.msg_hash)
             THEN {[kind |-> "NoResponse"], [kind |-> "TxStatus", tx_result |-> 1]}
             ELSE {[kind |-> "NoResponse"], [kind |-> "Block", block |-> Block_new(1, 1)]}
      [] fut.awaits = "PeersRequest" ->
             {[kind |-> "Peers", peers |-> {}], [kind |-> "Peers", peers |-> {Stranger}]}
      [] fut.awaits = "RequestUpdateNonce" ->
             {[kind |-> "EdgeUpdate", edge |-> SignedEdge(1, 2, 9)],
              [kind |-> "BanPeer", ban_reason |-> "InvalidEdge"]}
      [] fut.awaits = "ResponseUpdateNonce" ->
             {[kind |-> "NoResponse"], [kind |-> "BanPeer", ban_reason |-> "InvalidEdge"]}

\* a routed message its author has signed
SignedRouted(author, target, body, ttl) ==
    Routed(author, target, RoutedSignature(author, target, body), body, ttl)

RoutedBodies ==
    {[kind |-> "ForwardTx", id |-> 1], [kind |-> "ForwardTx", id |-> 2],
     [kind |-> "BlockApproval", id |-> 1], [kind |-> "TxStatusRequest", id |-> 1],
     [kind |-> "Ping", id |-> 1]}

\* the messages of the remote: routed messages to the node of machine m; one
\* to another node, to be forwarded or at the end of its life; one that
\* carries the signature of another body; and the other variants
ReadyMessages(m) ==
    {SignedRouted(NodeId(remote(m)), NodeId(m), body, 2) : body \in RoutedBodies}
        \cup {SignedRouted(NodeId(remote(m)), Stranger, [kind |-> "Ping", id |-> 1], ttl) :
                 ttl \in {1, 2}}
        \cup {Routed(NodeId(remote(m)), NodeId(m),
                     RoutedSignature(NodeId(remote(m)), NodeId(m),
                                     [kind |-> "BlockApproval", id |-> 1]),
                     [kind |-> "Ping", id |-> 1], 2)}
        \cup {[variant |-> "Block", block |-> Block_new(1, 1)],
              [variant |-> "BlockRequest", hash |-> 1],
              [variant |-> "PeersRequest"],
              [variant |-> "PeersResponse", peers |-> {Stranger}],
              [variant |-> "RequestUpdateNonce",
               edge_info |-> PartialEdgeInfo_new(NodeId(remote(m)), NodeId(m), 9,
                                                 NodeId(remote(m)))],
              [variant |-> "ResponseUpdateNonce", edge |-> SignedEdge(1, 2, 9)],
              [variant |-> "Disconnect"]}

\* the frames of the remote: the messages under the encoding of the
\* connection, and one under the other encoding
ReadyItems(m) ==
    {serialize(msg, "Proto") : msg \in ReadyMessages(m)}
        \cup {serialize([variant |-> "PeersRequest"], "Borsh")}

\* routed messages and blocks: a forwarded transaction and an approval for
\* the node of machine m, a ping for another node, and a block
RoutedItems(m) ==
    {serialize(msg, "Proto") :
        msg \in {SignedRouted(NodeId(remote(m)), NodeId(m), body, 2) :
                    body \in {[kind |-> "ForwardTx", id |-> 1],
                              [kind |-> "BlockApproval", id |-> 1]}}
                 \cup {SignedRouted(NodeId(remote(m)), Stranger,
                                    [kind |-> "Ping", id |-> 1], 2),
                       [variant |-> "Block", block |-> Block_new(1, 1)]}}

\* the node of the ready connection: it knows no edge to the remote node and
\* its pool accepts the connection
ReadyNode ==
    CHOOSE ns \in InboundNodes :
        ns.pool_accepts /\ ns.routing_table_view = EmptyMap /\ ns.clock = 12

\* the actor a handshake of tier `tier` leaves
ReadyActor(tier) ==
    LET hello == HandshakeMessage(tier,
                     Handshake(58, "genesis", 1, 2, PartialEdgeInfo_new(1, 2, 7, 1)))
        created == spawn_with_permit(spawn(Inbound, None, ReadyNode), TRUE)
        connecting == handle_frame(started(created, ReadyNode), ReadyNode,
                                   serialize(hello, "Proto"))
    IN  on_handshake_timeout(on_register_peer_response(connecting, ReadyNode, "Accept"))

ReadyInitWith(items) ==
    /\ CacheInit
    /\ \E tier \in Tiers :
           LET a == ReadyActor(tier)
           IN  /\ actors = [n \in {"inbound"} |->
                               [a EXCEPT !.routed_message_cache.older =
                                             ROUTED_MESSAGE_CACHE_SIZE - 1,
                                         !.txns_since_last_block =
                                             MAX_TRANSACTIONS_PER_BLOCK_MESSAGE,
                                         !.framed = <<>>,
                                         !.to_peer_manager = <<>>,
                                         !.events = <<>>]]
               /\ stream = [n \in Machines |-> IF n = "inbound" THEN <<>> ELSE a.framed]
               /\ peer_manager = [n \in {"inbound"} |-> a.to_peer_manager]
               /\ event_sink = [n \in {"inbound"} |-> a.events]
    /\ network_state = [n \in {"inbound"} |-> ReadyNode]
    /\ dispatched = [n \in {"inbound"} |-> <<>>]
    /\ renegotiated = [n \in {"inbound"} |-> 0]
    /\ txns_since_last_block = 0
    /\ received_at = [n \in {"inbound"} |-> EmptyMap]
    /\ inbound_handshake_permits = MaxInboundHandshakePermits
    /\ hostile = items
    /\ handshake_timed_out = {}

\* a stream that delivers the newest frame first
Sends_newest_first(m, items) ==
    /\ hostile > 0
    /\ actors[m].ctx = "running"
    /\ \E item \in items : stream' = [stream EXCEPT ![m] = <<item>> \o @]
    /\ hostile' = hostile - 1
    /\ UNCHANGED <<actors, peer_manager, network_state, event_sink, dispatched,
                   received_at, inbound_handshake_permits, txns_since_last_block,
                   handshake_timed_out, renegotiated, cache_vars>>

\* the remote writes a frame to the stream: the reader task delivers the
\* frames in the order they were written, each when the actor has handled
\* the one before
Sends(m, items) ==
    /\ hostile > 0
    /\ actors[m].ctx = "running"
    /\ \E item \in items : stream' = [stream EXCEPT ![m] = Append(@, item)]
    /\ hostile' = hostile - 1
    /\ UNCHANGED <<actors, peer_manager, network_state, event_sink, dispatched,
                   received_at, inbound_handshake_permits, txns_since_last_block,
                   handshake_timed_out, renegotiated, cache_vars>>

\* time passes before the next frame arrives
Tick(m) ==
    /\ actors[m].ctx = "running"
    /\ stream[m] = <<>>
    /\ hostile > 0
    /\ actors[m].clock < MaxTicks * ClockStep
    /\ actors' = [actors EXCEPT ![m].clock = @ + ClockStep]
    /\ UNCHANGED <<stream, peer_manager, network_state, event_sink, dispatched, hostile,
                   received_at, inbound_handshake_permits, txns_since_last_block,
                   handshake_timed_out, renegotiated, cache_vars>>

\* a future the actor has spawned completes: its closure runs
SpawnedCompletes(m) ==
    /\ CanHandle(m)
    /\ \E i \in 1..Len(actors[m].spawned) :
           \E res \in Responses(actors[m].spawned[i]) :
               Commit(m, on_spawned([actors[m] EXCEPT !.spawned = RemoveAt(@, i)],
                                    actors[m].spawned[i], res), 0)
    /\ UNCHANGED <<received_at, txns_since_last_block, handshake_timed_out, renegotiated>>

ReadyNext ==
    \/ \E m \in DOMAIN actors : Sends(m, ReadyItems(m))
    \/ \E m \in DOMAIN actors : HandleFrame(m)
    \/ \E m \in DOMAIN actors : SpawnedCompletes(m)

ReadySpec == ReadyInitWith(MaxReadyItems) /\ [][ReadyNext]_vars

RoutedNext ==
    \/ \E m \in DOMAIN actors : Sends(m, RoutedItems(m))
    \/ \E m \in DOMAIN actors : HandleFrame(m)
    \/ \E m \in DOMAIN actors : Tick(m)
    \/ \E m \in DOMAIN actors : SpawnedCompletes(m)

RoutedSpec == ReadyInitWith(MaxRoutedItems) /\ [][RoutedNext]_vars
(***************************************************************************)
(* Properties of a ready connection.                                       *)
(***************************************************************************)
\* the key of a routed message in the cache of duplicates
RoutedKey(msg) == <<msg.author, msg.target, msg.signature>>

\* this step, machine m handles a frame that parses to a routed message
HandlesRouted(m) ==
    /\ HandlesFrame(m)
    /\ is_some(Received(m))
    /\ unwrap(Received(m)).variant = "Routed"

\* the keys the cache holds, each with the time recorded for it
Entries(c) == {<<c.recent[i].key, c.recent[i].value>> : i \in 1..Len(c.recent)}

\* the cache of machine m holds the key, recorded at most
\* DROP_DUPLICATED_MESSAGES_PERIOD before now
RecordedWithinPeriod(m, key) ==
    \E e \in Entries(actors[m].routed_message_cache) :
        e[1] = key /\ actors[m].clock <= e[2] + DROP_DUPLICATED_MESSAGES_PERIOD

\* this step leaves no trace of the frame handled but in the order of the
\* cache and in the statistics of reception: nothing is dispatched, forwarded,
\* sent or written, and the rest of the actor is as it was
Dropped(m) ==
    /\ Written(m) = <<>>
    /\ SentToPeerManager(m) = <<>>
    /\ dispatched'[m] = dispatched[m]
    /\ event_sink'[m] = event_sink[m]
    /\ Entries(actors'[m].routed_message_cache) = Entries(actors[m].routed_message_cache)
    /\ LruCache_len(actors'[m].routed_message_cache)
           = LruCache_len(actors[m].routed_message_cache)
    /\ actors'[m] = [actors[m] EXCEPT !.routed_message_cache =
                                          actors'[m].routed_message_cache,
                                      !.tracker.received_messages = @ + 1]

\* C21 as stated: a machine drops (does not dispatch, forward or otherwise
\* handle) any received Routed message whose (author, target, signature) key
\* it received within the previous 50 ms.
C21_ReceivedWithinPeriodIsDropped ==
    [][\A m \in DOMAIN actors :
          (/\ HandlesRouted(m)
           /\ RoutedKey(unwrap(Received(m))) \in DOMAIN received_at[m]
           /\ actors[m].clock <= received_at[m][RoutedKey(unwrap(Received(m)))]
                                     + DROP_DUPLICATED_MESSAGES_PERIOD)
          => Dropped(m)]_vars

\* C21, amended: a machine drops (does not dispatch, forward or otherwise
\* handle) any received Routed message whose (author, target, signature) key
\* its cache holds with a time at most 50 ms old.  (The cache records the
\* arrivals that are not dropped: a dropped duplicate does not extend the
\* period.)
C21_RecordedWithinPeriodIsDropped ==
    [][\A m \in DOMAIN actors :
          (HandlesRouted(m) /\ RecordedWithinPeriod(m, RoutedKey(unwrap(Received(m)))))
          => Dropped(m)]_vars

\* a routed message has been dropped as a duplicate, at the limit of the
\* period: its key was last received 50 ms after it was recorded
C21_Witness ==
    \E m \in DOMAIN actors :
        \E e \in Entries(actors[m].routed_message_cache) :
            /\ e[1] \in DOMAIN received_at[m]
            /\ received_at[m][e[1]] = e[2] + DROP_DUPLICATED_MESSAGES_PERIOD
\* the routed message machine m handles this step is a forwarded transaction
\* over the limit of transactions per block
OverTheLimit(m) ==
    /\ unwrap(Received(m)).body.kind = "ForwardTx"
    /\ actors[m].txns_since_last_block > MAX_TRANSACTIONS_PER_BLOCK_MESSAGE

\* this step records the arrival of the routed message machine m handles
Recorded(m) ==
    <<RoutedKey(unwrap(Received(m))), actors[m].clock>>
        \in Entries(actors'[m].routed_message_cache)

\* C22 as stated: a Routed message is dropped as a duplicate only if a
\* message with the same key was recorded by this machine at most 50 ms
\* earlier; a Routed message arriving more than 50 ms after the last recorded
\* arrival of its key is processed and its arrival time recorded; the dedup
\* cache never holds more than 1000 keys.
C22_DuplicatesOnlyWithinPeriod ==
    /\ [][\A m \in DOMAIN actors :
             HandlesRouted(m) =>
                 IF RecordedWithinPeriod(m, RoutedKey(unwrap(Received(m))))
                 THEN TRUE
                 ELSE ~Dropped(m) /\ Recorded(m)]_vars
    /\ [](\A m \in DOMAIN actors :
             LruCache_len(actors[m].routed_message_cache) <= ROUTED_MESSAGE_CACHE_SIZE)

\* C22, amended: a Routed message is dropped as a duplicate only if a message
\* with the same key was recorded by this machine at most 50 ms earlier; a
\* Routed message arriving more than 50 ms after the last recorded arrival of
\* its key is processed and its arrival time recorded, unless it is a
\* ForwardTx dropped by the limit of transactions per block; the dedup cache
\* never holds more than 1000 keys.
C22_DuplicatesOnlyWithinPeriodOrOverTheLimit ==
    /\ [][\A m \in DOMAIN actors :
             HandlesRouted(m) =>
                 IF RecordedWithinPeriod(m, RoutedKey(unwrap(Received(m))))
                 THEN TRUE
                 ELSE IF OverTheLimit(m) THEN Dropped(m)
                 ELSE ~Dropped(m) /\ Recorded(m)]_vars
    /\ [](\A m \in DOMAIN actors :
             LruCache_len(actors[m].routed_message_cache) <= ROUTED_MESSAGE_CACHE_SIZE)

\* the cache is full, and a routed message has been dispatched a second time,
\* after the period of its first arrival
C22_Witness ==
    \E m \in DOMAIN actors :
        /\ LruCache_len(actors[m].routed_message_cache) = ROUTED_MESSAGE_CACHE_SIZE
        /\ \E i, j \in 1..Len(dispatched[m]) :
               /\ i < j
               /\ dispatched[m][i] = dispatched[m][j]
               /\ dispatched[m][i].sink = "client"
               /\ dispatched[m][i].msg.kind = "BlockApproval"
\* C23: on receiving a Routed(ForwardTx) that is not a duplicate, if
\* txns_since_last_block exceeds 1000 the message is dropped without dispatch
\* and neither the counter nor the entries of the dedup cache change;
\* otherwise the counter is incremented by exactly one and the message
\* proceeds.  Receiving a Block sets the counter to 0.  Nothing else the
\* machine receives or does changes the counter.
C23_TransactionsSinceLastBlock ==
    [][\A m \in DOMAIN actors :
          LET counter == actors[m].txns_since_last_block
              msg == unwrap(Received(m))
          IN  IF HandlesRouted(m) /\ msg.body.kind = "ForwardTx"
                 /\ ~RecordedWithinPeriod(m, RoutedKey(msg))
              THEN IF counter > MAX_TRANSACTIONS_PER_BLOCK_MESSAGE
                   THEN Dropped(m)
                   ELSE /\ actors'[m].txns_since_last_block = counter + 1
                        /\ Recorded(m)
                        /\ ~Dropped(m)
              ELSE IF HandlesFrame(m) /\ is_some(Received(m)) /\ msg.variant = "Block"
              THEN actors'[m].txns_since_last_block = 0
              ELSE actors'[m].txns_since_last_block = counter]_vars

\* the counter is over the limit, and a forwarded transaction that was no
\* duplicate has been dropped: it came after the period of the arrival the
\* cache holds
C23_Witness ==
    \E m \in DOMAIN actors :
        /\ actors[m].txns_since_last_block > MAX_TRANSACTIONS_PER_BLOCK_MESSAGE
        /\ \E e \in Entries(actors[m].routed_message_cache) :
               /\ e[1][3].body.kind = "ForwardTx"
               /\ received_at[m][e[1]] > e[2] + DROP_DUPLICATED_MESSAGES_PERIOD
\* this step, machine m handles a message the tier of its ready connection
\* does not allow
HandlesDisallowed(m) ==
    /\ HandlesFrame(m)
    /\ actors[m].peer_status.status = "Ready"
    /\ is_some(Received(m))
    /\ ~is_allowed(actors[m].peer_status.conn.tier, unwrap(Received(m)))

\* C24: in Ready, a received message whose variant is not allowed on the tier
\* of the connection makes the machine halt: the message is not dispatched to
\* the client, the view client or the peer manager (which learns of the end
\* of the connection only), is not forwarded, and the peer is not banned.
C24_DisallowedOnTierHalts ==
    [][\A m \in DOMAIN actors :
          HandlesDisallowed(m) =>
              /\ Halts(m)
              /\ dispatched'[m] = dispatched[m]
              /\ \A sent \in Range(SentToPeerManager(m)) : sent.msg = "Unregister"
              /\ actors'[m].peer_status = actors[m].peer_status]_vars
\* C25: a received frame that fails to decode under the established encoding
\* of the connection makes the machine halt; while no encoding is established,
\* during the handshake, a frame that fails to decode as Proto is tried as
\* Borsh before it is treated as undecodable.
C25_UndecodableFrameHalts ==
    [][\A m \in DOMAIN actors :
          HandlesFrame(m) =>
              IF is_some(encoding(actors[m]))
              THEN ~is_some(Received(m)) => Halts(m)
              ELSE /\ actors[m].peer_status.status = "Connecting"
                   /\ Received(m) =
                          IF is_some(deserialize("Proto", Head(stream[m])))
                          THEN deserialize("Proto", Head(stream[m]))
                          ELSE deserialize("Borsh", Head(stream[m]))]_vars
\* the frames machine m writes to the stream this step
WrittenFrames(m) ==
    SubSeq(stream'[remote(m)], Len(stream[remote(m)]) + 1, Len(stream'[remote(m)]))

\* the frames are messages sent once each, under encoding enc
SentOnceUnder(frames, enc) == \A i \in 1..Len(frames) : frames[i].encoding = enc

\* the frames are messages sent twice each, under Proto and then under Borsh
SentTwice(frames) ==
    /\ Len(frames) % 2 = 0
    /\ \A i \in 1..Len(frames) :
           IF i % 2 = 1
           THEN frames[i].encoding = "Proto" /\ frames[i + 1].msg = frames[i].msg
           ELSE frames[i].encoding = "Borsh"

\* C26: with force_encoding configured (always Proto for outbound T1) that
\* encoding is used for every parse and send; otherwise, while Connecting and
\* before any successful Proto parse, each outbound message is sent twice
\* (Proto, then Borsh) and inbound frames are parsed as Proto, then Borsh; the
\* first successful Proto parse latches protocol_buffers_supported, which is
\* never reset and after which every send is Proto only; a machine that
\* leaves Connecting without the latch sends Borsh only.  In Ready every
\* outbound message is sent under exactly one encoding, which never changes.
C26_EncodingSelection ==
    [][\A m \in DOMAIN actors :
          LET a == actors[m]
              b == actors'[m]
              frame == Head(stream[m])
          IN  /\ (a.peer_type = "Outbound" /\ unwrap(a.handshake_spec).tier = "T1")
                     => a.force_encoding = Some("Proto")
              /\ b.force_encoding = a.force_encoding
              /\ a.protocol_buffers_supported => b.protocol_buffers_supported
              /\ IF is_some(a.force_encoding)
                 THEN /\ SentOnceUnder(WrittenFrames(m), unwrap(a.force_encoding))
                      /\ HandlesFrame(m) =>
                             Received(m) = deserialize(unwrap(a.force_encoding), frame)
                      /\ ~b.protocol_buffers_supported
                 ELSE /\ IF b.protocol_buffers_supported
                         THEN SentOnceUnder(WrittenFrames(m), "Proto")
                         ELSE IF b.peer_status.status = "Connecting"
                         THEN SentTwice(WrittenFrames(m))
                         ELSE SentOnceUnder(WrittenFrames(m), "Borsh")
                      /\ (HandlesFrame(m) /\ a.peer_status.status = "Connecting"
                              /\ ~a.protocol_buffers_supported) =>
                             /\ is_some(Received(m)) =
                                    (frame.encoding \in {"Proto", "Borsh"})
                             /\ b.protocol_buffers_supported =
                                    is_some(deserialize("Proto", frame))
                      /\ (b.protocol_buffers_supported /\ ~a.protocol_buffers_supported)
                             => HandlesFrame(m) /\ a.peer_status.status = "Connecting"
              /\ (a.peer_status.status = "Ready" /\ b.peer_status.status = "Ready") =>
                     /\ is_some(encoding(a))
                     /\ encoding(b) = encoding(a)
                     /\ SentOnceUnder(WrittenFrames(m), unwrap(encoding(a)))]_vars

\* a machine has become Ready without the latch and has answered under Borsh
\* only, and the remote has then asked it for the accounts data
C26_Witness ==
    \E m \in DOMAIN actors :
        /\ actors[m].peer_status.status = "Ready"
        /\ ~is_some(actors[m].force_encoding)
        /\ ~actors[m].protocol_buffers_supported
        /\ Len(stream[remote(m)]) = 2
        /\ stream[remote(m)][1].encoding = "Borsh"
        /\ stream[remote(m)][2] = serialize(SyncAccountsData(FALSE), "Borsh")
\* what machine m hands to the client, the view client or the peers this step
Dispatched(m) == SubSeq(dispatched'[m], Len(dispatched[m]) + 1, Len(dispatched'[m]))

ToClient(d) == d.sink \in {"client", "view_client"}

AwaitsPeerManager(m) ==
    \/ is_some(actors[m].wait)
    \/ \E i \in 1..Len(actors[m].spawned) :
           actors[m].spawned[i].awaits
               \in {"PeersRequest", "RequestUpdateNonce", "ResponseUpdateNonce"}

\* C28: the response to any request a machine sends to the peer manager
\* (RegisterPeer, PeersRequest, RequestUpdateNonce, ResponseUpdateNonce) is
\* handled by that machine before it handles any inbound frame that arrived
\* after the request was issued: a machine with such a request outstanding
\* handles no frame.
C28_PeerManagerResponseBeforeNextFrame ==
    [][\A m \in DOMAIN actors :
          AwaitsPeerManager(m) /\ stream[m] # <<>> /\ IsFrame(Head(stream[m]))
              => stream'[m] # Tail(stream[m])]_vars

(***************************************************************************)
(* The inbound connections of one node.  Each connection is accepted and   *)
(* spawned at some time, and all take their handshake permit from the one  *)
(* semaphore of the node, which is created with MaxInboundHandshakePermits *)
(* permits.  The remotes write a handshake the node accepts, or a frame    *)
(* that is too large, MaxInboundConnections items in all; the frames the   *)
(* machines write to their remotes are collected in stream.outbound.       *)
(***************************************************************************)
MaxInboundConnections == 2

InboundConnections ==
    {<<"inbound", "inbound_2", "inbound_3", "inbound_4">>[i] : i \in 1..MaxInboundConnections}

PermitItems(m) ==
    {serialize(msg, "Proto") :
         msg \in {h \in HostileHandshakes(m, 0) : h.handshake.partial_edge_info.nonce = 7}}
        \cup {[error |-> "MessageTooLarge"]}

PermitInit ==
    /\ CacheInit
    /\ \E ns \in {n \in InboundNodes : n.routing_table_view = EmptyMap /\ n.clock = 12} :
           /\ network_state = [m \in InboundConnections |-> ns]
           /\ actors = [m \in InboundConnections |->
                           [spawn(Inbound, None, ns) EXCEPT !.ctx = "spawning"]]
    /\ stream = [n \in InboundConnections \cup {"outbound"} |-> <<>>]
    /\ peer_manager = [m \in InboundConnections |-> <<>>]
    /\ event_sink = [m \in InboundConnections |-> <<>>]
    /\ dispatched = [m \in InboundConnections |-> <<>>]
    /\ received_at = [m \in InboundConnections |-> EmptyMap]
    /\ renegotiated = [m \in InboundConnections |-> 0]
    /\ txns_since_last_block = 0
    /\ inbound_handshake_permits = MaxInboundHandshakePermits
    /\ hostile = MaxInboundConnections
    /\ handshake_timed_out = {}

PermitNext ==
    \/ \E m \in DOMAIN actors : Spawn(m)
    \/ \E m \in DOMAIN actors : Started(m)
    \/ \E m \in DOMAIN actors : Sends(m, PermitItems(m))
    \/ \E m \in DOMAIN actors : HandleFrame(m)
    \/ \E m \in DOMAIN actors : HandleStreamError(m)
    \/ \E m \in DOMAIN actors : RegisterPeerResponse(m)
    \/ \E m \in DOMAIN actors : HandshakeTimeout(m)
    \/ \E m \in DOMAIN actors : PeerManagerRequest(m)

PermitSpec == PermitInit /\ [][PermitNext]_vars

\* the inbound machines in Connecting status: spawned, and neither Ready nor
\* Banned nor terminated
ConnectingInbound ==
    {m \in DOMAIN actors : /\ actors[m].peer_type = "Inbound"
                           /\ actors[m].peer_status.status = "Connecting"
                           /\ actors[m].ctx \in {"created", "running"}}

\* C29: at any time the number of inbound machines in Connecting status is at
\* most the capacity of inbound_handshake_permits, and the semaphore has as
\* many permits left as are not held by such a machine (a machine holds its
\* permit for as long as it is Connecting, and the permit is released when
\* it becomes Ready, becomes Banned or terminates); an inbound machine is
\* created only after acquiring a permit, otherwise spawn fails, no machine
\* starts and nobody is banned.
C29_InboundHandshakePermits ==
    /\ [](/\ Cardinality(ConnectingInbound) <= MaxInboundHandshakePermits
          /\ inbound_handshake_permits
                 = MaxInboundHandshakePermits - Cardinality(ConnectingInbound))
    /\ [][\A m \in DOMAIN actors :
             /\ actors[m].ctx = "spawning" /\ actors'[m].ctx # "spawning" =>
                    IF inbound_handshake_permits > 0
                    THEN /\ actors'[m].ctx = "created"
                         /\ inbound_handshake_permits' = inbound_handshake_permits - 1
                    ELSE /\ actors'[m].ctx = "failed"
                         /\ peer_manager'[m] = peer_manager[m]
             /\ actors[m].ctx = "failed" =>
                    /\ actors'[m] = actors[m]
                    /\ peer_manager'[m] = peer_manager[m]
                    /\ "PeerActorStarted" \notin Range(event_sink'[m])]_vars

\* a machine has become Ready and given its permit back, another has acquired
\* it since and is Connecting, and the semaphore is exhausted
C29_Witness ==
    /\ inbound_handshake_permits = 0
    /\ ConnectingInbound # {}
    /\ \E m \in DOMAIN actors : /\ actors[m].peer_status.status = "Ready"
                                /\ actors[m].ctx = "running"

\* C30: remove_from_cache_if_outside_horizon(h) removes the entry of h from
\* encoded_chunks and from incomplete_chunks if and only if the entry exists
\* and its height_created is outside
\* [largest_seen_height - 1024, largest_seen_height + 5], saturating at 0
\* (height_within_horizon is exactly membership in that interval); for an
\* in-horizon or absent chunk the whole cache is unchanged.
C30_RemoveFromCacheIfOutsideHorizon ==
    /\ [](\A height \in 0..(MAX_HEIGHTS_AHEAD + 1) \cup NewHeights
                           \cup {n - HEIGHT_HORIZON : n \in NewHeights \ {0}}
                           \cup {n - HEIGHT_HORIZON - 1 : n \in NewHeights \ {0}}
                           \cup {n + MAX_HEIGHTS_AHEAD : n \in NewHeights}
                           \cup {n + MAX_HEIGHTS_AHEAD + 1 : n \in NewHeights} :
              height_within_horizon(Cache, height)
                  <=> /\ saturating_sub(largest_seen_height, HEIGHT_HORIZON) <= height
                      /\ height <= largest_seen_height + MAX_HEIGHTS_AHEAD)
    /\ [][\A x \in ChunkHashes :
              RemoveFromCacheIfOutsideHorizon(x) =>
                  IF /\ x \in DOMAIN encoded_chunks
                     /\ LET height == encoded_chunks[x].header.height_created
                        IN  \/ height < saturating_sub(largest_seen_height, HEIGHT_HORIZON)
                            \/ height > largest_seen_height + MAX_HEIGHTS_AHEAD
                  THEN /\ x \notin DOMAIN encoded_chunks'
                       /\ \A p \in DOMAIN incomplete_chunks' : x \notin incomplete_chunks'[p]
                  ELSE Cache' = Cache]_vars

\* an incomplete entry behind the rear horizon, which the call removes, next
\* to an entry within the horizon, for which the call changes nothing
C30_Witness ==
    \E x, y \in DOMAIN encoded_chunks :
        /\ ~height_within_horizon(Cache, encoded_chunks[x].header.height_created)
        /\ \E p \in DOMAIN incomplete_chunks : x \in incomplete_chunks[p]
        /\ remove_from_cache_if_outside_horizon(Cache, x) # Cache
        /\ height_within_horizon(Cache, encoded_chunks[y].header.height_created)
        /\ remove_from_cache_if_outside_horizon(Cache, y) = Cache

(***************************************************************************)
(* A chain of forwarding machines.  Machine i is the Ready connection of   *)
(* the i-th node of the chain to the node before it; what it hands to      *)
(* send_message_to_peer travels to the next node of the chain, none of     *)
(* which is the target.  The first machine receives routed messages with   *)
(* TTLs 0..MaxTtl for a node that is not on the chain, each with a body    *)
(* that names its initial TTL, and one for its own node.                   *)
(***************************************************************************)
MaxHops == 3

MaxTtl == 2

MaxChainItems == 2

Hop(i) == <<"inbound", "inbound_2", "inbound_3", "inbound_4", "inbound_5">>[i]

ChainMachines == {Hop(i) : i \in 1..MaxHops}

ChainItems ==
    {serialize(msg, "Proto") :
        msg \in {SignedRouted(1, Stranger, [kind |-> kind, id |-> ttl], ttl) :
                    kind \in {"Ping", "BlockApproval", "ForwardTx"}, ttl \in 0..MaxTtl}
                 \cup {SignedRouted(1, 2, [kind |-> "BlockApproval", id |-> MaxTtl], MaxTtl)}}

ChainInit ==
    /\ CacheInit
    /\ \E tier \in Tiers :
           LET a == ReadyActor(tier)
           IN  /\ actors = [m \in ChainMachines |->
                               [a EXCEPT !.framed = <<>>, !.to_peer_manager = <<>>,
                                         !.events = <<>>]]
               /\ stream = [n \in ChainMachines \cup {"outbound"} |->
                               IF n = "outbound" THEN a.framed ELSE <<>>]
               /\ peer_manager = [m \in ChainMachines |-> a.to_peer_manager]
               /\ event_sink = [m \in ChainMachines |-> a.events]
    /\ network_state = [m \in ChainMachines |-> ReadyNode]
    /\ dispatched = [m \in ChainMachines |-> <<>>]
    /\ renegotiated = [m \in ChainMachines |-> 0]
    /\ txns_since_last_block = 0
    /\ received_at = [m \in ChainMachines |-> EmptyMap]
    /\ inbound_handshake_permits = MaxInboundHandshakePermits
    /\ hostile = MaxChainItems
    /\ handshake_timed_out = {}

\* NetworkState::send_message_to_peer: a routed message machine Hop(i) has
\* forwarded reaches the next node of the chain, once
Forwards(i) ==
    /\ i < MaxHops
    /\ actors[Hop(i + 1)].ctx = "running"
    /\ \E k \in 1..Len(dispatched[Hop(i)]) :
           LET d == dispatched[Hop(i)][k]
           IN  /\ d.sink = "peer"
               /\ d.msg.kind = "Routed"
               /\ <<d.msg.msg.author, d.msg.msg.target, d.msg.msg.signature>>
                      \notin DOMAIN received_at[Hop(i + 1)]
               /\ \A j \in 1..Len(stream[Hop(i + 1)]) :
                      stream[Hop(i + 1)][j] # serialize(d.msg.msg, "Proto")
               /\ stream' = [stream EXCEPT ![Hop(i + 1)] =
                                Append(@, serialize(d.msg.msg, "Proto"))]
    /\ UNCHANGED <<actors, peer_manager, network_state, event_sink, dispatched, hostile,
                   received_at, inbound_handshake_permits, txns_since_last_block,
                   handshake_timed_out, renegotiated, cache_vars>>

ChainNext ==
    \/ Sends(Hop(1), ChainItems)
    \/ \E m \in DOMAIN actors : HandleFrame(m)
    \/ \E i \in 1..MaxHops : Forwards(i)
    \/ \E m \in DOMAIN actors : SpawnedCompletes(m)

ChainSpec == ChainInit /\ [][ChainNext]_vars

\* a routed message handed to send_message_to_peer
IsForward(d) == d.sink = "peer" /\ d.msg.kind = "Routed"

\* the events machine m emits this step
EmittedNow(m) == SubSeq(event_sink'[m], Len(event_sink[m]) + 1, Len(event_sink'[m]))

\* this step, machine m is Ready and handles a correctly signed routed message
\* for another node
HandlesRoutedForAnother(m) ==
    /\ HandlesRouted(m)
    /\ actors[m].peer_status.status = "Ready"
    /\ RoutedMessage_verify(unwrap(Received(m)))
    /\ unwrap(Received(m)).target # actors[m].my_node_id

\* this step, the message machine m handles is forwarded with its TTL
\* decremented, or its TTL hits 0 and one RoutedMessageDropped is emitted;
\* nothing goes to the client or the view client
ForwardedOrDroppedOnce(m) ==
    LET msg == unwrap(Received(m))
        forwarded == SelectSeq(Dispatched(m), IsForward)
        drops == {i \in 1..Len(EmittedNow(m)) : EmittedNow(m)[i] = "RoutedMessageDropped"}
    IN  /\ IF msg.ttl > 1
           THEN /\ Len(forwarded) = 1
                /\ forwarded[1].msg.msg = [msg EXCEPT !.ttl = msg.ttl - 1]
                /\ drops = {}
           ELSE /\ forwarded = <<>>
                /\ Cardinality(drops) = 1
        /\ SelectSeq(Dispatched(m), ToClient) = <<>>

\* the times the machines of the chain have forwarded a message of that body
ForwardsOf(body) ==
    UNION {{<<m, k>> : k \in {j \in 1..Len(dispatched[m]) :
                                 /\ IsForward(dispatched[m][j])
                                 /\ dispatched[m][j].msg.msg.body = body}} :
              m \in DOMAIN actors}

\* along the chain a message with initial TTL t is forwarded at most t times
\* (the body of a message names its initial TTL)
ForwardsAreBounded ==
    \A kind \in {"Ping", "BlockApproval", "ForwardTx"}, ttl \in 0..MaxTtl :
        Cardinality(ForwardsOf([kind |-> kind, id |-> ttl])) <= ttl

\* C31 as stated: a Routed message with valid signature received in Ready
\* whose target is not this node has its TTL decremented and is then either
\* forwarded (TTL still above 0) or dropped with exactly one
\* RoutedMessageDropped event (TTL hit 0), never both, and is never delivered
\* to the local client; hence along any chain of forwarding machines a
\* message with initial TTL t is forwarded at most t times.
C31_ForwardedOrDropped ==
    /\ [][\A m \in DOMAIN actors :
              HandlesRoutedForAnother(m) => ForwardedOrDroppedOnce(m)]_vars
    /\ []ForwardsAreBounded

\* C31 as amended: the same of the messages that reach the handler of the
\* Ready status, which are those allowed on the tier of the connection and
\* neither dropped as duplicates nor by the limit of transactions.
C31_ForwardedOrDroppedWhenHandled ==
    /\ [][\A m \in DOMAIN actors :
              ( /\ HandlesRoutedForAnother(m)
                /\ is_allowed(actors[m].peer_status.conn.tier, unwrap(Received(m)))
                /\ ~RecordedWithinPeriod(m, RoutedKey(unwrap(Received(m))))
                /\ ~OverTheLimit(m) )
                  => ForwardedOrDroppedOnce(m)]_vars
    /\ []ForwardsAreBounded

\* a message with the largest initial TTL has been forwarded by the first
\* machine and on, and the machine at which its TTL hit 0 has dropped it
C31_Witness ==
    /\ \E k \in 1..Len(dispatched[Hop(1)]) :
           /\ IsForward(dispatched[Hop(1)][k])
           /\ dispatched[Hop(1)][k].msg.msg.body.id = MaxTtl
    /\ "RoutedMessageDropped" \in Range(event_sink[Hop(MaxTtl)])
    /\ \E body \in {[kind |-> "BlockApproval", id |-> MaxTtl]} :
           Cardinality(ForwardsOf(body)) = MaxTtl - 1

\* this step, machine m handles the Accept of the peer manager to its
\* RegisterPeer
HandlesAccept(m) ==
    /\ actors[m].ctx = "running"
    /\ is_some(actors[m].wait)
    /\ network_state[m].pool_accepts
    /\ ~is_some(actors'[m].wait)

C33_ReceptionIsRecorded ==
    [][\A m \in DOMAIN actors :
           HandlesFrame(m) /\ actors[m].peer_status.status = "Ready"
               => /\ actors'[m].tracker.received_messages =
                         actors[m].tracker.received_messages + 1
                  /\ actors'[m].peer_status.status = "Ready"
                         => actors'[m].peer_status.conn.last_time_received_message =
                                actors[m].clock]_vars
(***************************************************************************)
(* A ready connection that is asked to send.  The remote writes up to      *)
(* MaxSendItems blocks and block requests, and the peer manager asks the   *)
(* machine to send blocks and block requests while fewer than MaxSent      *)
(* frames have been written to the remote.                                 *)
(***************************************************************************)
MaxSendItems == 2

MaxSent == 3

\* the frames of the remote: a block and the request for it
SendItems(m) ==
    {serialize(msg, "Proto") :
        msg \in {[variant |-> "Block", block |-> Block_new(1, 1)],
                 [variant |-> "BlockRequest", hash |-> 1]}}

\* what the machine is asked to send: the block the remote may have sent,
\* another block, a block of the largest size and one above it, and the
\* request for a block
SendMessages ==
    {[variant |-> "Block", block |-> Block_new(1, 1)],
     [variant |-> "Block", block |-> Block_new(2, NETWORK_MESSAGE_MAX_SIZE_BYTES)],
     [variant |-> "Block", block |-> Block_new(3, NETWORK_MESSAGE_MAX_SIZE_BYTES + 1)],
     [variant |-> "BlockRequest", hash |-> 2]}

\* Handler<SendMessage>::handle, for message msg
SendsMessage(m, msg) ==
    /\ CanHandle(m)
    /\ Len(stream[remote(m)]) < MaxSent
    /\ Commit(m, send_message(actors[m], msg), 0)
    /\ UNCHANGED <<received_at, txns_since_last_block, handshake_timed_out, renegotiated>>

SendMessage(m) == \E msg \in SendMessages : SendsMessage(m, msg)

SendNext ==
    \/ \E m \in DOMAIN actors : Sends(m, SendItems(m))
    \/ \E m \in DOMAIN actors : HandleFrame(m)
    \/ \E m \in DOMAIN actors : SpawnedCompletes(m)
    \/ \E m \in DOMAIN actors : SendMessage(m)

SendSpec == ReadyInitWith(MaxSendItems) /\ [][SendNext]_vars

\* C34: a machine that is asked to send a block it has received from the
\* peer writes nothing; a block request it writes is recorded in its
\* tracker; no message it writes is longer than
\* NETWORK_MESSAGE_MAX_SIZE_BYTES; and a Ready machine writes no message the
\* tier of its connection does not allow
C34_SendingPolicy ==
    [][\A m \in DOMAIN actors :
           /\ \A msg \in SendMessages :
                  /\ SendsMessage(m, msg)
                  /\ msg.variant = "Block"
                  /\ has_received(actors[m].tracker, msg.block.hash)
                  => Written(m) = <<>>
           /\ \A i \in 1..Len(Written(m)) :
                  /\ Written(m)[i].variant = "BlockRequest"
                         => has_request(actors'[m].tracker, Written(m)[i].hash)
                  /\ serialized_len(Written(m)[i]) <= NETWORK_MESSAGE_MAX_SIZE_BYTES
                  /\ actors[m].peer_status.status = "Ready"
                         => is_allowed(actors[m].peer_status.conn.tier, Written(m)[i])]_vars

\* the machine has received block 1, has written block 2 and the request for
\* it, which its tracker records, and can be asked to send block 1
C34_Witness ==
    \E m \in DOMAIN actors :
        /\ CanHandle(m)
        /\ Len(stream[remote(m)]) < MaxSent
        /\ has_received(actors[m].tracker, 1)
        /\ has_request(actors[m].tracker, 2)
        /\ \E i \in 1..Len(stream[remote(m)]) :
               stream[remote(m)][i].msg.variant \in {"Block", "BlockRequest"}
(***************************************************************************)
(* The answers of the client.                                              *)
(***************************************************************************)
\* this step, the client answers res to a message machine m has dispatched
\* to it
ClientResponds(m, res) ==
    /\ CanHandle(m)
    /\ \E i \in 1..Len(actors[m].spawned) :
           /\ actors[m].spawned[i].awaits = "client"
           /\ Commit(m, on_spawned([actors[m] EXCEPT !.spawned = RemoveAt(@, i)],
                                   actors[m].spawned[i], res), 0)

MessageProcessedNow(m) ==
    {i \in 1..Len(EmittedNow(m)) : EmittedNow(m)[i] = "MessageProcessed"}

\* C35: when the client answers a dispatched message, Ban{reason} moves the
\* machine to Banned(reason) and halts it, InvalidTx leaves it Ready and
\* running, and one MessageProcessed event is emitted for every other answer
\* but none for Ban, InvalidTx or a delivery error
C35_ClientResponses ==
    [][\A m \in DOMAIN actors : \A res \in Responses([awaits |-> "client"]) :
           ClientResponds(m, res)
               => /\ res.kind = "Ban"
                         => /\ actors'[m].peer_status = Banned(res.ban_reason)
                            /\ actors'[m].ctx = "stopped"
                  /\ res.kind = "InvalidTx"
                         => /\ actors[m].peer_status.status = "Ready"
                            /\ actors'[m].peer_status = actors[m].peer_status
                            /\ actors'[m].ctx = "running"
                  /\ Cardinality(MessageProcessedNow(m)) =
                         IF res.kind \in {"Ban", "InvalidTx", "MailboxError"} THEN 0 ELSE 1]_vars

\* the client has answered a block with a ban: the machine is banned and
\* has stopped, and no MessageProcessed event was emitted
C35_Witness ==
    \E m \in DOMAIN actors :
        /\ actors[m].peer_status = Banned("BadBlock")
        /\ actors[m].ctx = "stopped"
        /\ \E i \in 1..Len(dispatched[m]) : dispatched[m][i].sink = "client"
        /\ Emitted(m, "MessageProcessed") = {}
(***************************************************************************)
(* A connecting machine and the messages of a ready connection.  The       *)
(* remote writes up to MaxConnectingItems frames: its handshake, routed    *)
(* messages, a block and a request for peers, in any order.                *)
(***************************************************************************)
MaxConnectingItems == 3

ConnectingItems(m) ==
    {serialize(msg, "Proto") :
        msg \in {h \in HostileHandshakes(m, 0) : h.handshake.partial_edge_info.nonce = 7}
                    \cup {SignedRouted(NodeId(remote(m)), NodeId(m), body, 2) :
                             body \in {[kind |-> "ForwardTx", id |-> 1],
                                       [kind |-> "BlockApproval", id |-> 1]}}
                    \cup {[variant |-> "Block", block |-> Block_new(1, 1)],
                          [variant |-> "PeersRequest"]}}

ConnectingNext ==
    \/ \E m \in DOMAIN actors : Spawn(m)
    \/ \E m \in DOMAIN actors : Started(m)
    \/ \E m \in DOMAIN actors : Sends(m, ConnectingItems(m))
    \/ \E m \in DOMAIN actors : HandleFrame(m)
    \/ \E m \in DOMAIN actors : RegisterPeerResponse(m)
    \/ \E m \in DOMAIN actors : SpawnedCompletes(m)

ConnectingSpec == HostileInitWith(MaxConnectingItems) /\ [][ConnectingNext]_vars

\* the variants of the handshake
HandshakeRelated == {"Tier1Handshake", "Tier2Handshake", "HandshakeFailure", "LastEdge"}

\* this step, machine m handles a message that is not of the handshake while
\* Connecting
HandlesOtherWhileConnecting(m) ==
    /\ HandlesFrame(m)
    /\ actors[m].peer_status.status = "Connecting"
    /\ is_some(Received(m))
    /\ unwrap(Received(m)).variant \notin HandshakeRelated

\* C36: a message that is not of the handshake, received while Connecting,
\* is dispatched to no one and changes nothing: neither the machine, apart
\* from its statistics of reception, nor txns_since_last_block, nor the
\* network state with its route-back tables
C36_OnlyHandshakeWhileConnecting ==
    [][\A m \in DOMAIN actors :
           HandlesOtherWhileConnecting(m)
               => /\ dispatched'[m] = dispatched[m]
                  /\ peer_manager'[m] = peer_manager[m]
                  /\ network_state'[m] = network_state[m]
                  /\ [actors'[m] EXCEPT !.tracker = actors[m].tracker] = actors[m]]_vars
(***************************************************************************)
(* The teardown.                                                           *)
(***************************************************************************)
IsTeardown(sent) == sent.msg \in {"Ban", "Unregister"}

\* the teardown message of an actor that stops as act
TeardownOf(act) ==
    IF act.peer_status.status = "Banned"
    THEN [msg |-> "Ban", peer_id |-> unwrap(act.peer_info),
          ban_reason |-> act.peer_status.ban_reason]
    ELSE [msg |-> "Unregister", peer_id |-> unwrap(act.peer_info),
          peer_type |-> act.peer_type,
          remove_from_peer_store |-> act.peer_status.status = "Ready"]

\* C37: a machine that stops knowing its peer sends the peer manager one
\* teardown message in that step: Ban with the peer and the reason if it is
\* Banned, otherwise Unregister, which asks to remove the peer from the peer
\* store exactly if the machine is Ready; and over its life a machine sends
\* at most one teardown message
C37_TeardownMessage ==
    /\ [][\A m \in DOMAIN actors :
              /\ actors[m].ctx # "stopped"
              /\ actors'[m].ctx = "stopped"
              /\ is_some(actors'[m].peer_info)
              => SelectSeq(SentToPeerManager(m), IsTeardown) = <<TeardownOf(actors'[m])>>]_vars
    /\ [](\A m \in DOMAIN actors : Len(SelectSeq(peer_manager[m], IsTeardown)) <= 1)

\* a machine has stopped while Ready and has asked to remove its peer from
\* the peer store
C37_Witness ==
    \E m \in DOMAIN actors :
        /\ actors[m].ctx = "stopped"
        /\ actors[m].peer_status.status = "Ready"
        /\ \E i \in 1..Len(peer_manager[m]) :
               /\ peer_manager[m][i].msg = "Unregister"
               /\ peer_manager[m][i].remove_from_peer_store
(***************************************************************************)
(* height_map and the pinned chunks.                                       *)
(***************************************************************************)
\* C38: height_map and encoded_chunks agree: the chunks height_map lists
\* under a height are the chunks encoded_chunks holds with that
\* height_created, and height_map lists no height without chunks
C38_HeightMapAgrees ==
    /\ \A height \in DOMAIN height_map :
           /\ height_map[height] # {}
           /\ \A chunk_hash \in height_map[height] :
                  /\ chunk_hash \in DOMAIN encoded_chunks
                  /\ encoded_chunks[chunk_hash].header.height_created = height
    /\ \A chunk_hash \in DOMAIN encoded_chunks :
           LET height == encoded_chunks[chunk_hash].header.height_created
           IN  height \in DOMAIN height_map /\ chunk_hash \in height_map[height]

\* chunk_hash is cached below the rear horizon and height_map no longer
\* lists it: update_largest_seen_height has taken its height from height_map
\* and has kept its entry, because the hash was in requested_chunks
SurvivedPinned(chunk_hash) ==
    /\ chunk_hash \in DOMAIN encoded_chunks
    /\ LET height == encoded_chunks[chunk_hash].header.height_created
       IN  /\ height < saturating_sub(largest_seen_height, HEIGHT_HORIZON)
           /\ height \in DOMAIN height_map => chunk_hash \notin height_map[height]

\* C39: a chunk that survived update_largest_seen_height because it was
\* requested is evicted by the next call that advances the largest seen
\* height and does not list it in requested_chunks
C39_PinningOnlyDelaysEviction ==
    [][\A new_height \in NewHeights, requested_chunks \in SUBSET ChunkHashes :
           \A chunk_hash \in ChunkHashes \ requested_chunks :
               /\ SurvivedPinned(chunk_hash)
               /\ new_height > largest_seen_height
               /\ UpdateLargestSeenHeight(new_height, requested_chunks)
               => chunk_hash \notin DOMAIN encoded_chunks']_vars
(***************************************************************************)
(* The connections of one node, each on its own thread.  MaxTxnsMachines   *)
(* ready connections share txns_since_last_block, which has reached        *)
(* MAX_TRANSACTIONS_PER_BLOCK_MESSAGE; the remote nodes write up to        *)
(* MaxTxnsItems forwarded transactions and blocks.  The handler of a       *)
(* forwarded transaction is two steps: it loads the counter, and it does   *)
(* the rest, the fetch_add first; the handlers of the other connections    *)
(* run between the two.  The field txns_since_last_block of an actor is    *)
(* the value its handler has loaded.                                       *)
(***************************************************************************)
MaxTxnsMachines == 2

MaxTxnsItems == 2

TxnsMachines == {Hop(i) : i \in 1..MaxTxnsMachines}

TxnsItems(m) ==
    {serialize(msg, "Proto") :
        msg \in {SignedRouted(NodeId(remote(m)), NodeId(m), [kind |-> "ForwardTx", id |-> 1], 2),
                 [variant |-> "Block", block |-> Block_new(1, 1)]}}

TxnsInit ==
    /\ CacheInit
    /\ LET a == ReadyActor("T2")
       IN  /\ actors = [m \in TxnsMachines |->
                           [a EXCEPT !.framed = <<>>, !.to_peer_manager = <<>>,
                                     !.events = <<>>]]
           /\ peer_manager = [m \in TxnsMachines |-> a.to_peer_manager]
           /\ event_sink = [m \in TxnsMachines |-> a.events]
    /\ stream = [n \in TxnsMachines \cup {"outbound"} |-> <<>>]
    /\ network_state = [m \in TxnsMachines |-> ReadyNode]
    /\ dispatched = [m \in TxnsMachines |-> <<>>]
    /\ renegotiated = [m \in TxnsMachines |-> 0]
    /\ received_at = [m \in TxnsMachines |-> EmptyMap]
    /\ inbound_handshake_permits = MaxInboundHandshakePermits
    /\ txns_since_last_block = MAX_TRANSACTIONS_PER_BLOCK_MESSAGE
    /\ hostile = MaxTxnsItems
    /\ handshake_timed_out = {}

\* Handler<stream::Frame>::handle reaches the load of txns_since_last_block:
\* the frame is a forwarded transaction that is no duplicate
loads_txns_since_last_block(a, frame) ==
    LET parsed == parse_message(a, frame)
        msg == unwrap(parsed.msg)
        got == LruCache_get(a.routed_message_cache,
                            <<msg.author, msg.target, msg.signature>>)
    IN  /\ is_some(parsed.msg)
        /\ msg.variant = "Routed"
        /\ ~(is_some(got.value)
             /\ a.clock <= unwrap(got.value) + DROP_DUPLICATED_MESSAGES_PERIOD)
        /\ msg.body.kind = "ForwardTx"

\* the handler of the frame at the head of the stream loads the counter
Load(m) ==
    /\ CanHandle(m)
    /\ stream[m] # <<>>
    /\ IsFrame(Head(stream[m]))
    /\ ~actors[m].txns_loaded
    /\ loads_txns_since_last_block(actors[m], Head(stream[m]))
    /\ actors' = [actors EXCEPT ![m].txns_since_last_block = txns_since_last_block,
                                ![m].txns_loaded = TRUE]
    /\ UNCHANGED <<stream, peer_manager, network_state, event_sink, dispatched, hostile,
                   received_at, inbound_handshake_permits, txns_since_last_block,
                   handshake_timed_out, renegotiated, cache_vars>>

\* the handler does the rest: unless it returns for the value it has loaded,
\* it adds one to the counter (fetch_add); for a block it stores 0
HandleLoaded(m) ==
    /\ CanHandle(m)
    /\ stream[m] # <<>>
    /\ IsFrame(Head(stream[m]))
    /\ loads_txns_since_last_block(actors[m], Head(stream[m])) => actors[m].txns_loaded
    /\ LET handled == handle_frame(actors[m], network_state[m], Head(stream[m]))
           msg == parse_message(actors[m], Head(stream[m])).msg
       IN  /\ Commit(m, [handled EXCEPT !.txns_loaded = FALSE], 1)
           /\ txns_since_last_block' =
                  IF is_some(msg) /\ unwrap(msg).variant = "Block" THEN 0
                  ELSE IF handled.txns_since_last_block # actors[m].txns_since_last_block
                  THEN txns_since_last_block + 1
                  ELSE txns_since_last_block
           /\ received_at' =
                  IF is_some(msg) /\ unwrap(msg).variant = "Routed"
                  THEN [received_at EXCEPT ![m] =
                           MapPut(@, <<unwrap(msg).author, unwrap(msg).target,
                                       unwrap(msg).signature>>, actors[m].clock)]
                  ELSE received_at
    /\ UNCHANGED <<handshake_timed_out, renegotiated>>

TxnsNext ==
    \/ \E m \in DOMAIN actors : Sends(m, TxnsItems(m))
    \/ \E m \in DOMAIN actors : Load(m)
    \/ \E m \in DOMAIN actors : HandleLoaded(m)
    \/ \E m \in DOMAIN actors : SpawnedCompletes(m)

TxnsSpec == TxnsInit /\ [][TxnsNext]_vars

\* C40: the counter of forwarded transactions never exceeds
\* MAX_TRANSACTIONS_PER_BLOCK_MESSAGE + 1, however the handlers of the
\* connections interleave
C40_TxnsSinceLastBlockIsBounded ==
    txns_since_last_block <= MAX_TRANSACTIONS_PER_BLOCK_MESSAGE + 1

====
